---- MODULE Spec2Model ----
(***************************************************************************)
(* Model of the "Modes Viewer" plugin: the scan-and-aggregate pipeline     *)
(* (tree scanner, usage grouper, collection fetcher, collection enricher,  *)
(* ignore filter, orchestrator), the ignore store handlers and the        *)
(* 'update-variable' handler.                                              *)
(*                                                                         *)
(* Strings that the code inspects are sequences of tokens, so that the     *)
(* conversions (extractVariableId, rgbToHex, the hex pattern match) are    *)
(* computed the way the code computes them.                                *)
(***************************************************************************)
EXTENDS Integers, Sequences, FiniteSets, TLC

VARIABLES
  nodes,          \* scene node id -> attributes (the document, as the host holds it)
  currentPage,    \* figma.currentPage
  selection,      \* figma.currentPage.selection
  teamLibraries,  \* keys of the library collections the host can enumerate
  variableValues, \* variable handle -> mode id -> value (variable.valuesByMode)
  clientStorage,  \* figma.clientStorage: storage key -> stored value
  scanMode,       \* code.ts: let scanMode
  tasks,          \* the invocations in flight or finished, in order of start
  outbox,         \* messages posted to the UI, in order
  initialLoadDone,          \* code.ts: let initialLoadDone
  isProgrammaticPageChange, \* code.ts: let isProgrammaticPageChange
  ui              \* ui.tsx: the React state the message handler writes

vars == <<nodes, currentPage, selection, teamLibraries, variableValues, clientStorage,
          scanMode, tasks, outbox, initialLoadDone, isProgrammaticPageChange, ui>>

\* ui.tsx useState initial values; error <<>> is null and scanProgress 0 is
\* null; received counts the plugin messages handled, last is the type of the
\* latest of them and shown the position in outbox of the 'collections-data'
\* on display (0: none)
InitialUi ==
  [loading |-> TRUE, error |-> <<>>, hasScanned |-> FALSE, scanMode |-> "page",
   scanProgress |-> 0, received |-> 0, last |-> "none", shown |-> 0]

\* the module variables of code.ts and the UI state when the plugin starts
SessionStart ==
  /\ initialLoadDone = FALSE
  /\ isProgrammaticPageChange = FALSE
  /\ ui = InitialUi

Session == <<initialLoadDone, isProgrammaticPageChange, ui>>

\* ------------------------------------------------------------------------
\* Bounds of the model
\* ------------------------------------------------------------------------

\* number of user requests the ignore-store model lets the UI send
MaxRequests == 2

\* the longest list of selected nodes handed to buildSelectionInfo
MaxRoots == 5

\* ------------------------------------------------------------------------
\* Generic sequence helpers (Array.prototype.includes / filter / indexOf)
\* ------------------------------------------------------------------------

Range(s) == { s[i] : i \in 1..Len(s) }

Includes(s, x) == \E i \in 1..Len(s) : s[i] = x

NoDuplicates(s) == \A i, j \in 1..Len(s) : s[i] = s[j] => i = j

RECURSIVE Concat(_)
Concat(ss) == IF ss = <<>> THEN <<>> ELSE Head(ss) \o Concat(Tail(ss))

\* ------------------------------------------------------------------------
\* Colour codec (utils/color-utils.ts)
\* ------------------------------------------------------------------------

\* A colour channel n in the range 0-1 is a rational <<numerator, denominator>>;
\* the paints of the document have channels k / ColorDen.
ColorDen == 2

HexDigits == <<"0","1","2","3","4","5","6","7","8","9","a","b","c","d","e","f">>

UpperOf(c) ==
  CASE c = "a" -> "A" [] c = "b" -> "B" [] c = "c" -> "C"
    [] c = "d" -> "D" [] c = "e" -> "E" [] c = "f" -> "F"
    [] OTHER -> c

\* String.prototype.toUpperCase on a token sequence
toUpperCase(s) == [i \in 1..Len(s) |-> UpperOf(s[i])]

\* Math.round(n * 255): halves round up
RoundByte(n) == (2 * n[1] * 255 + n[2]) \div (2 * n[2])

\* Number.prototype.toString(16)
RECURSIVE toString16(_)
toString16(n) ==
  IF n < 16 THEN <<HexDigits[n + 1]>>
  ELSE toString16(n \div 16) \o <<HexDigits[(n % 16) + 1]>>

toHex(n) ==
  LET hex == toString16(RoundByte(n))
  IN  IF Len(hex) = 1 THEN <<"0">> \o hex ELSE hex

rgbToHex(r, g, b) == toUpperCase(<<"#">> \o toHex(r) \o toHex(g) \o toHex(b))

\* variant: the byte is taken as a 256th
hexToRgb256(hex) ==
  LET digits == IF hex # <<>> /\ hex[1] = "#" THEN Tail(hex) ELSE hex
      IsHex(c) == \E i \in 1..16 : HexDigits[i] = c \/ UpperOf(HexDigits[i]) = c
      ValueOf(c) == (CHOOSE i \in 1..16 : HexDigits[i] = c \/ UpperOf(HexDigits[i]) = c) - 1
      parseInt(i) == 16 * ValueOf(digits[i]) + ValueOf(digits[i + 1])
  IN  IF Len(digits) = 6 /\ \A i \in 1..6 : IsHex(digits[i])
      THEN [r |-> <<parseInt(1), 256>>, g |-> <<parseInt(3), 256>>, b |-> <<parseInt(5), 256>>,
            a |-> 1]
      ELSE [r |-> <<0, 1>>, g |-> <<0, 1>>, b |-> <<0, 1>>, a |-> 1]

\* /^#?([a-f\d]{2})([a-f\d]{2})([a-f\d]{2})$/i.exec(hex), then
\* parseInt(result[i], 16) / 255; no match gives black
hexToRgb(hex) ==
  LET digits == IF hex # <<>> /\ hex[1] = "#" THEN Tail(hex) ELSE hex
      IsHex(c) == \E i \in 1..16 : HexDigits[i] = c \/ UpperOf(HexDigits[i]) = c
      ValueOf(c) == (CHOOSE i \in 1..16 : HexDigits[i] = c \/ UpperOf(HexDigits[i]) = c) - 1
      parseInt(i) == 16 * ValueOf(digits[i]) + ValueOf(digits[i + 1])
  IN  IF Len(digits) = 6 /\ \A i \in 1..6 : IsHex(digits[i])
      THEN [r |-> <<parseInt(1), 255>>, g |-> <<parseInt(3), 255>>, b |-> <<parseInt(5), 255>>,
            a |-> 1]
      ELSE [r |-> <<0, 1>>, g |-> <<0, 1>>, b |-> <<0, 1>>, a |-> 1]

\* ------------------------------------------------------------------------
\* Variable identifiers (code.ts, extractVariableId)
\* ------------------------------------------------------------------------

\* "VariableID:" is one token, so substring(11) drops exactly that token.
VariableIdPrefix == "VariableID:"

IndexOf(s, c) ==
  IF \E i \in 1..Len(s) : s[i] = c
  THEN CHOOSE i \in 1..Len(s) : s[i] = c /\ \A j \in 1..(i - 1) : s[j] # c
  ELSE 0

extractVariableId(fullId) ==
  LET slashIndex == IndexOf(fullId, "/")
      afterSlash == IF slashIndex # 0
                    THEN SubSeq(fullId, slashIndex + 1, Len(fullId))
                    ELSE fullId
  IN  IF afterSlash # <<>> /\ Head(afterSlash) = VariableIdPrefix
      THEN Tail(afterSlash)
      ELSE afterSlash

\* ------------------------------------------------------------------------
\* The document tree (host oracle, read-only for the scanner)
\* ------------------------------------------------------------------------

PageIds == <<"P1", "P2">>

SceneNodeIds == {"1:1", "1:2", "1:3", "2:1"}

NodeIds == Range(PageIds) \cup SceneNodeIds

\* node.children; a node without the 'children' property has none
Children(id) ==
  CASE id = "P1"  -> <<"1:1", "1:2">>
    [] id = "1:1" -> <<"1:3">>
    [] id = "P2"  -> <<"2:1">>
    [] OTHER      -> <<>>

NodeName(id) ==
  CASE id = "P1"  -> "Page 1"
    [] id = "P2"  -> "Page 2"
    [] id = "1:1" -> "Card"
    [] id = "1:2" -> "Label"
    [] id = "1:3" -> "Icon"
    [] OTHER      -> "Footer"

RECURSIVE SubtreeIds(_)
SubtreeIds(id) ==
  {id} \cup UNION { SubtreeIds(Children(id)[i]) : i \in 1..Len(Children(id)) }

\* Attributes of a page node: no paints, no bindings
PageAttrs ==
  [type |-> "PAGE", textStyleId |-> "", characters |-> <<>>,
   fills |-> [kind |-> "absent", paints |-> <<>>],
   strokes |-> [kind |-> "absent", paints |-> <<>>],
   boundVariables |-> <<>>]

\* ------------------------------------------------------------------------
\* Unbound-element scan (variable-scanner-service, scanUnboundElements;
\*  utils/node-utils.ts, hasBoundFills / hasBoundStrokes)
\* ------------------------------------------------------------------------

hasBoundFills(node) == \E i \in 1..Len(node.boundVariables) : node.boundVariables[i].key = "fills"

hasBoundStrokes(node) == \E i \in 1..Len(node.boundVariables) : node.boundVariables[i].key = "strokes"

\* variant: hidden paints pass the filter
SolidAny(paints) == SelectSeq(paints, LAMBDA p : p.type = "SOLID")

\* paints.filter(p => p.type === 'SOLID' && p.visible !== false)
SolidVisible(paints) == SelectSeq(paints, LAMBDA p : p.type = "SOLID" /\ p.visible)

PaintHex(p) == rgbToHex(p.color[1], p.color[2], p.color[3])

\* characters.substring(0, 30) followed by '...' when longer
ExcerptLen == 30

TextExcerpt(chars) ==
  IF Len(chars) > ExcerptLen THEN SubSeq(chars, 1, ExcerptLen) \o <<"...">> ELSE chars

\* The entries one node contributes, in the order the code pushes them
NodeUnbound(id, node) ==
  LET textNoStyle ==
        IF node.type = "TEXT" /\ node.textStyleId = ""
        THEN << [id |-> id, name |-> NodeName(id), type |-> "text-no-style",
                 details |-> <<"Text: \"">> \o TextExcerpt(node.characters) \o <<"\"">>] >>
        ELSE <<>>
      textPartial ==
        IF /\ node.type = "TEXT"
           /\ node.fills.kind = "list"
           /\ ~hasBoundFills(node)
           /\ Len(node.fills.paints) > 0
           /\ Len(SolidVisible(node.fills.paints)) > 0
        THEN << [id |-> id, name |-> NodeName(id), type |-> "text-partial-style",
                 details |-> <<"Text color ">> \o PaintHex(SolidVisible(node.fills.paints)[1])
                               \o <<" not using variable">>] >>
        ELSE <<>>
      fillNoVariable ==
        IF /\ node.fills.kind = "list"
           /\ ~hasBoundFills(node)
           /\ Len(SolidVisible(node.fills.paints)) > 0
           /\ node.type # "TEXT"
        THEN << [id |-> id, name |-> NodeName(id), type |-> "fill-no-variable",
                 details |-> <<node.type, " - ">> \o PaintHex(SolidVisible(node.fills.paints)[1])] >>
        ELSE <<>>
      strokeNoVariable ==
        IF /\ node.strokes.kind = "list"
           /\ ~hasBoundStrokes(node)
           /\ Len(SolidVisible(node.strokes.paints)) > 0
        THEN << [id |-> id, name |-> NodeName(id), type |-> "stroke-no-variable",
                 details |-> <<node.type, " - ">> \o PaintHex(SolidVisible(node.strokes.paints)[1])] >>
        ELSE <<>>
  IN  textNoStyle \o textPartial \o fillNoVariable \o strokeNoVariable

RECURSIVE scanUnboundElements(_, _, _)
RECURSIVE scanUnboundChildren(_, _, _)
\* attrs: node id -> attributes; returns unboundElements after the pushes
scanUnboundElements(id, attrs, unboundElements) ==
  scanUnboundChildren(Children(id), attrs, unboundElements \o NodeUnbound(id, attrs[id]))

scanUnboundChildren(kids, attrs, unboundElements) ==
  IF kids = <<>> THEN unboundElements
  ELSE scanUnboundChildren(Tail(kids), attrs, scanUnboundElements(Head(kids), attrs, unboundElements))

\* ------------------------------------------------------------------------
\* Variable usage scan (variable-scanner-service, getUsedVariableIds)
\* ------------------------------------------------------------------------

\* variableToNodes : Map<string, Set<string>> as a sequence of entries in
\* insertion order; a Set is a sequence in insertion order.

MapHas(map, key) == \E i \in 1..Len(map) : map[i].id = key

MapIndex(map, key) == CHOOSE i \in 1..Len(map) : map[i].id = key

MapGet(map, key) == map[MapIndex(map, key)].nodeIds

\* Set.prototype.add
SetAdd(set, x) == IF Includes(set, x) THEN set ELSE Append(set, x)

\* variant: the node ids of a token kept in an array instead of a Set
addVariableUsagePush(variableToNodes, varId, nodeId) ==
  LET withKey == IF MapHas(variableToNodes, varId) THEN variableToNodes
                 ELSE Append(variableToNodes, [id |-> varId, nodeIds |-> <<>>])
      i == MapIndex(withKey, varId)
  IN  [withKey EXCEPT ![i].nodeIds = Append(@, nodeId)]

addVariableUsage(variableToNodes, varId, nodeId) ==
  LET withKey == IF MapHas(variableToNodes, varId) THEN variableToNodes
                 ELSE Append(variableToNodes, [id |-> varId, nodeIds |-> <<>>])
      i == MapIndex(withKey, varId)
  IN  [withKey EXCEPT ![i].nodeIds = SetAdd(@, nodeId)]

\* A missing element of an array / keyed binding (null) is the empty id.
NullBinding == <<>>

RECURSIVE addBindingIds(_, _, _)
addBindingIds(variableToNodes, ids, nodeId) ==
  IF ids = <<>> THEN variableToNodes
  ELSE addBindingIds(addVariableUsage(variableToNodes, Head(ids), nodeId), Tail(ids), nodeId)

\* One slot of boundVariables, by the shape the code tests for:
\* a single binding ('id' in binding), an array of bindings, or an object
\* of keyed bindings; null elements of the latter two are skipped.
bindingIds(binding) ==
  CASE binding.kind = "single" -> binding.ids
    [] binding.kind = "array"  -> SelectSeq(binding.ids, LAMBDA b : b # NullBinding)
    [] binding.kind = "keyed"  -> SelectSeq(binding.ids, LAMBDA b : b # NullBinding)

\* `'id' in binding` with a primitive on the right of `in` throws a TypeError;
\* a slot holding a truthy primitive (kind "primitive") passes `if (binding)`
\* and reaches that test
inThrows(binding) == binding.kind = "primitive"

\* some node of the subtrees of roots carries a slot on which the test throws
usageThrows(roots, attrs) ==
  \E r \in 1..Len(roots) : \E id \in SubtreeIds(roots[r]) :
    \E i \in 1..Len(attrs[id].boundVariables) : inThrows(attrs[id].boundVariables[i])

\* for (const key in boundVars) { ... }
RECURSIVE addSlots(_, _, _)
addSlots(variableToNodes, slots, nodeId) ==
  IF slots = <<>> THEN variableToNodes
  ELSE addSlots(addBindingIds(variableToNodes, bindingIds(Head(slots)), nodeId), Tail(slots), nodeId)

RECURSIVE getUsedVariableIds(_, _, _)
RECURSIVE getUsedChildren(_, _, _)
getUsedVariableIds(id, attrs, variableToNodes) ==
  getUsedChildren(Children(id), attrs, addSlots(variableToNodes, attrs[id].boundVariables, id))

getUsedChildren(kids, attrs, variableToNodes) ==
  IF kids = <<>> THEN variableToNodes
  ELSE getUsedChildren(Tail(kids), attrs, getUsedVariableIds(Head(kids), attrs, variableToNodes))

\* ------------------------------------------------------------------------
\* Selection info (variable-scanner-service, buildSelectionInfo)
\* ------------------------------------------------------------------------

RECURSIVE Join(_, _)
Join(names, sep) ==
  IF names = <<>> THEN <<>>
  ELSE IF Len(names) = 1 THEN <<names[1]>>
  ELSE <<names[1], sep>> \o Join(Tail(names), sep)

\* variant: the truncated form already for three names
buildSelectionInfoFromThree(roots) ==
  LET selectionNames == [i \in 1..Len(roots) |-> NodeName(roots[i])]
  IN  IF Len(selectionNames) = 1 THEN <<selectionNames[1]>>
      ELSE IF Len(selectionNames) <= 2 THEN Join(selectionNames, ", ")
      ELSE Join(SubSeq(selectionNames, 1, 2), ", ") \o <<" + ", Len(selectionNames) - 2, " more">>

buildSelectionInfo(roots) ==
  LET selectionNames == [i \in 1..Len(roots) |-> NodeName(roots[i])]
  IN  IF Len(selectionNames) = 1 THEN <<selectionNames[1]>>
      ELSE IF Len(selectionNames) <= 3 THEN Join(selectionNames, ", ")
      ELSE Join(SubSeq(selectionNames, 1, 2), ", ") \o <<" + ", Len(selectionNames) - 2, " more">>

\* ------------------------------------------------------------------------
\* The host's variables and collections (figma.variables, figma.teamLibrary)
\* ------------------------------------------------------------------------

IdBlue       == <<"VariableID:", "1:1">>
IdBlueRouted == <<"VariableID:", "file", "/", "1:1">>
IdText       == <<"VariableID:", "1:2">>
IdLib        == <<"VariableID:", "libhash", "/", "2:1">>
IdOrphan     == <<"VariableID:", "3:1">>
IdGone       == <<"VariableID:", "7:7">>

Literal(v) == [kind |-> "literal", v |-> v, id |-> <<>>]

\* { type: 'VARIABLE_ALIAS', id }
Alias(id) == [kind |-> "alias", v |-> <<>>, id |-> id]

\* The variable records of the document, by a host-internal handle
HostVariables ==
  [blue   |-> [id |-> IdBlue, name |-> "Brand/Blue", resolvedType |-> "COLOR",
               variableCollectionId |-> "C:local",
               valuesByMode |-> [m1 |-> Literal(<<"#", "1", "1", "2", "2", "3", "3">>),
                                 m2 |-> Literal(<<"#", "E", "E", "D", "D", "C", "C">>),
                                 lm1 |-> Literal(<<>>)]],
   text   |-> [id |-> IdText, name |-> "Text/Primary", resolvedType |-> "COLOR",
               variableCollectionId |-> "C:local",
               valuesByMode |-> [m1 |-> Alias(IdBlue), m2 |-> Alias(IdGone), lm1 |-> Literal(<<>>)]],
   lib    |-> [id |-> IdLib, name |-> "Lib/Red", resolvedType |-> "COLOR",
               variableCollectionId |-> "C:lib",
               valuesByMode |-> [m1 |-> Literal(<<>>), m2 |-> Literal(<<>>), lm1 |-> Alias(IdText)]],
   orphan |-> [id |-> IdOrphan, name |-> "Old/Spacing", resolvedType |-> "FLOAT",
               variableCollectionId |-> "C:gone",
               valuesByMode |-> [m1 |-> Literal(<<"8">>), m2 |-> Literal(<<"8">>), lm1 |-> Literal(<<>>)]]]

\* variable.valuesByMode of every record before any edit
InitialValues == [h \in DOMAIN HostVariables |-> HostVariables[h].valuesByMode]

\* Which record an identifier denotes for the host ("none": no such variable).
\* A routing-wrapped identifier denotes the record of the wrapped identifier.
HostVariableOf(id) ==
  CASE id = IdBlue       -> "blue"
    [] id = IdBlueRouted -> "blue"
    [] id = IdText       -> "text"
    [] id = IdLib        -> "lib"
    [] id = IdOrphan     -> "orphan"
    [] OTHER             -> "none"

LibKey == <<"libhash", "/", "Brand">>

HostCollections ==
  [local |-> [id |-> "C:local", name |-> "Primitives", remote |-> FALSE, key |-> <<"localkey">>,
              modes |-> <<[modeId |-> "m1", name |-> "Light"], [modeId |-> "m2", name |-> "Dark"]>>],
   lib   |-> [id |-> "C:lib", name |-> "Brand", remote |-> TRUE, key |-> LibKey,
              modes |-> <<[modeId |-> "lm1", name |-> "Default"]>>]]

HostCollectionOf(collectionId) ==
  CASE collectionId = "C:local" -> "local"
    [] collectionId = "C:lib"   -> "lib"
    [] OTHER                    -> "none"

\* Outcomes of one asynchronous host lookup: the record the host holds, nothing
\* (deleted or never existed), or a rejected promise (for example a permission
\* error).
LookupOutcomes == {"ok", "null", "throw"}

\* getVariableByIdAsync(id) under outcome o: a handle, "none" or "throw"
getVariableById(id, o) ==
  IF o = "throw" THEN "throw"
  ELSE IF o = "null" THEN "none"
  ELSE HostVariableOf(id)

getVariableCollectionById(collectionId, o) ==
  IF o = "throw" THEN "throw"
  ELSE IF o = "null" THEN "none"
  ELSE HostCollectionOf(collectionId)

\* String.prototype.split('/') then the last part
RECURSIVE LastSegment(_)
LastSegment(key) ==
  LET i == IndexOf(key, "/")
  IN  IF i = 0 THEN key ELSE LastSegment(SubSeq(key, i + 1, Len(key)))

\* variant: the result of the availability test is not negated
isGhostLibraryInverted(collection, libs, o) ==
  IF ~collection.remote \/ collection.key = <<>> THEN FALSE
  ELSE IF o = "throw" THEN FALSE
  ELSE \E lib \in libs : lib = collection.key

\* variant: a failed enumeration counts as "not available"
isGhostLibraryAssumeGhost(collection, libs, o) ==
  IF ~collection.remote \/ collection.key = <<>> THEN FALSE
  ELSE IF o = "throw" THEN TRUE
  ELSE ~(\E lib \in libs : lib = collection.key)

\* variable-service, isGhostLibrary: libs is the set of keys the host
\* enumerates, o the outcome of the enumeration
isGhostLibrary(collection, libs, o) ==
  IF ~collection.remote \/ collection.key = <<>> THEN FALSE
  ELSE IF o = "throw" THEN FALSE
  ELSE ~(\E lib \in libs : lib = collection.key)

\* ------------------------------------------------------------------------
\* Ignore filter (variable-scanner-service, filterIgnoredElements)
\* ------------------------------------------------------------------------

IsHexDigit(c) ==
  c \in Range(HexDigits) \cup {"A", "B", "C", "D", "E", "F"}

\* details.match(/#[0-9A-F]{6}/i): the first match, or <<>> for null
matchHex(details) ==
  LET hits == { i \in 1..Len(details) :
                  /\ details[i] = "#"
                  /\ i + 6 <= Len(details)
                  /\ \A j \in 1..6 : IsHexDigit(details[i + j]) }
  IN  IF hits = {} THEN <<>>
      ELSE LET i == CHOOSE h \in hits : \A g \in hits : h <= g
           IN  SubSeq(details, i, i + 6)

\* The body of the for-loop over ignoredByValues: TRUE when some entry makes
\* the filter callback return false
RECURSIVE ignoredByValue(_, _)
ignoredByValue(el, ignoredByValues) ==
  IF ignoredByValues = <<>> THEN FALSE
  ELSE LET ignored == Head(ignoredByValues)
           hit ==
             IF ignored.valueType = "stroke" /\ el.type = "stroke-no-variable"
             THEN el.details # <<>> /\ matchHex(el.details) # <<>>
                    /\ matchHex(el.details) = ignored.value
             ELSE IF ignored.valueType = "fill" /\ el.type = "fill-no-variable"
             THEN el.details # <<>> /\ matchHex(el.details) # <<>>
                    /\ matchHex(el.details) = ignored.value
             ELSE IF ignored.valueType = "text-no-style"
                       /\ (el.type = "text-no-style" \/ el.type = "text-partial-style")
             THEN TRUE
             ELSE FALSE
       IN  hit \/ ignoredByValue(el, Tail(ignoredByValues))

\* variant: the by-id list is not consulted
filterIgnoredByValueOnly(unboundElements, ignoredByIds, ignoredByValues) ==
  SelectSeq(unboundElements, LAMBDA el : ~ignoredByValue(el, ignoredByValues))

filterIgnoredElements(unboundElements, ignoredByIds, ignoredByValues) ==
  SelectSeq(unboundElements,
            LAMBDA el : IF Includes(ignoredByIds, el.id) THEN FALSE
                        ELSE ~ignoredByValue(el, ignoredByValues))

\* ------------------------------------------------------------------------
\* One invocation of getVariableCollections(mode): its locals and its position
\* (pc names the host call the invocation is suspended on)
\* ------------------------------------------------------------------------

NoResult == [collections |-> <<>>, unboundElements |-> <<>>, selectionInfo |-> <<>>,
             currentPageName |-> ""]

\* msg carries the request the handler serves; pending the list a handler is
\* about to store; the h* fields are history, not program state (hWrote: the
\* length of the outbox just after the handler's store write and its toast,
\* hStart: the length of the outbox when the handler's scan was started,
\* hOutcomes: the ways a lookup of the usage grouper has failed, hProgress: for each
\* progress message, how many pages had been scanned when it was posted,
\* hStore: the store when the handler's scan was started; target and
\* targetCollection are the variable and the collection an 'update-variable'
\* handler has looked up, hEdit how that handler ended, hGhostCheck the outcome
\* of its library enumeration)
NewTask(kind, mode, msg) ==
  [kind |-> kind, pc |-> "call", mode |-> mode, msg |-> msg, pending |-> <<>>,
   pageIdx |-> 0,
   variableToNodes |-> <<>>, unboundElements |-> <<>>, selectionInfo |-> <<>>,
   gi |-> 0, variablesByCollection |-> <<>>,
   ci |-> 0, collections |-> <<>>,
   ei |-> 0, vi |-> 0, mi |-> 0, variable |-> "none", valuesByMode |-> <<>>,
   variablesData |-> <<>>, collectionsData |-> <<>>,
   ignoredByIds |-> <<>>, ignoredByValues |-> <<>>,
   result |-> NoResult,
   hGroup |-> <<>>, hEnrich |-> {}, hAlias |-> {}, hFetch |-> {}, hLibs |-> {},
   hRoots |-> <<>>, hThrow |-> "", hWrote |-> 0, hStart |-> 0,
   hOutcomes |-> {}, hProgress |-> <<>>, hStore |-> <<>>,
   target |-> "none", targetCollection |-> "none", hEdit |-> "", hGhostCheck |-> "",
   hEvent |-> "", hPosted |-> 0]

NoMsg == [type |-> "none", elementId |-> "", valueType |-> "", value |-> <<>>, scanMode |-> ""]

\* variablesByCollection : Map<collectionId, VariableWithNodes[]>, in insertion order
GroupHas(groups, collectionId) == \E i \in 1..Len(groups) : groups[i].collectionId = collectionId

GroupIndex(groups, collectionId) == CHOOSE i \in 1..Len(groups) : groups[i].collectionId = collectionId

\* variablesByCollection.get(collection.id) || []
usedVarsInCollection(tk) ==
  LET collection == HostCollections[tk.collections[tk.ei]]
  IN  IF GroupHas(tk.variablesByCollection, collection.id)
      THEN tk.variablesByCollection[GroupIndex(tk.variablesByCollection, collection.id)].vars
      ELSE <<>>

\* Step 5 begins: await getIgnoredElementIds(documentId)
EnterFilter(tk) == [tk EXCEPT !.pc = "readIds"]

RECURSIVE EnterCollection(_)
RECURSIVE ProcessModes(_)

\* collectionsData.push(...) for a collection that kept at least one variable
PushCollection(tk, libraryName, isGhost) ==
  LET collection == HostCollections[tk.collections[tk.ei]]
  IN  [tk EXCEPT !.collectionsData =
         Append(@, [id |-> collection.id, name |-> collection.name,
                    modes |-> collection.modes, variables |-> tk.variablesData,
                    isRemote |-> collection.remote,
                    libraryName |-> libraryName, isGhost |-> isGhost])]

NextCollection(tk) == EnterCollection([tk EXCEPT !.ei = @ + 1])

\* variant: every fetched collection is included
includeCollectionAlways(variablesData) == TRUE

\* "Only include collections that have variables used on the page"
includeCollection(variablesData) == Len(variablesData) > 0

\* After the loop over the collection's used variables
FinishCollection(tk) ==
  LET collection == HostCollections[tk.collections[tk.ei]]
  IN  IF includeCollection(tk.variablesData)
      THEN IF collection.remote /\ collection.key # <<>>
           THEN [tk EXCEPT !.pc = "ghost"]
           ELSE NextCollection(PushCollection(tk, <<>>, FALSE))
      ELSE NextCollection(tk)

NextVariable(tk) ==
  IF tk.vi + 1 <= Len(usedVarsInCollection(tk))
  THEN [tk EXCEPT !.pc = "enrichVar", !.vi = @ + 1]
  ELSE FinishCollection(tk)

\* for (const collection of collections)
EnterCollection(tk) ==
  IF tk.ei > Len(tk.collections) THEN EnterFilter(tk)
  ELSE LET fresh == [tk EXCEPT !.variablesData = <<>>, !.vi = 0]
       IN  NextVariable(fresh)

\* for (const mode of collection.modes), from mode tk.mi on, up to the next
\* alias lookup or the push of the variable
ProcessModes(tk) ==
  LET collection == HostCollections[tk.collections[tk.ei]]
      variable   == HostVariables[tk.variable]
  IN  IF tk.mi > Len(collection.modes)
      THEN NextVariable(
             [tk EXCEPT !.variablesData =
                Append(@, [id |-> variable.id, name |-> variable.name,
                           resolvedType |-> variable.resolvedType,
                           valuesByMode |-> tk.valuesByMode,
                           nodeIds |-> usedVarsInCollection(tk)[tk.vi].nodeIds,
                           isRemote |-> collection.remote])])
      ELSE LET modeId == collection.modes[tk.mi].modeId
               value  == variableValues[tk.variable][modeId]
           IN  IF value.kind = "alias"
               THEN [tk EXCEPT !.pc = "enrichAlias"]
               ELSE ProcessModes([tk EXCEPT !.valuesByMode =
                                     Append(@, [modeId |-> modeId, value |-> value]),
                                   !.mi = @ + 1])

\* Step 4 begins
EnterEnrich(tk) == EnterCollection([tk EXCEPT !.ei = 1])

\* Step 3 begins: for (const collectionId of variablesByCollection.keys())
EnterFetch(tk) ==
  IF Len(tk.variablesByCollection) >= 1
  THEN [tk EXCEPT !.pc = "fetch", !.ci = 1]
  ELSE EnterEnrich(tk)

\* Step 2 begins: for (const [varId, nodeIds] of usedVariableIds.entries())
EnterGroup(tk) ==
  IF Len(tk.variableToNodes) >= 1
  THEN [tk EXCEPT !.pc = "group", !.gi = 1]
  ELSE EnterFetch(tk)

\* ------------------------------------------------------------------------
\* Step 1: scanNodesForVariables
\* ------------------------------------------------------------------------

\* an uncaught rejection leaves getVariableCollections through its catch-and-rethrow
Thrown(tk, stage) == [tk EXCEPT !.pc = "thrown", !.hThrow = stage]

\* for (const node of roots) { getUsedVariableIds(...); scanUnboundElements(...) }
RECURSIVE scanRoots(_, _, _)
scanRoots(tk, roots, attrs) ==
  IF roots = <<>> THEN tk
  ELSE scanRoots([tk EXCEPT
                    !.variableToNodes = getUsedVariableIds(Head(roots), attrs, @),
                    !.unboundElements = scanUnboundElements(Head(roots), attrs, @)],
                 Tail(roots), attrs)

\* One iteration of the document loop: the progress message of page i is
\* posted, page i is scanned, then the loop yields with setTimeout(0); after
\* the last page the pipeline goes on
documentPage(tk, i, attrs) ==
  IF i > Len(PageIds) THEN EnterGroup(tk)
  ELSE IF usageThrows(<<PageIds[i]>>, attrs)
  THEN [Thrown(tk, "scan") EXCEPT
          !.pageIdx = i,
          !.hProgress = Append(@, [current |-> i, scanned |-> Len(tk.hRoots)])]
  ELSE [scanRoots(tk, <<PageIds[i]>>, attrs) EXCEPT
          !.pc = "pages", !.pageIdx = i,
          !.hProgress = Append(@, [current |-> i, scanned |-> Len(tk.hRoots)]),
          !.hRoots = Append(@, PageIds[i])]

\* getUsedVariableIds has no try/catch: an exception of the slot test leaves
\* the scanner and the scan (getVariableCollections rethrows it)
scanNodesForVariables(tk, attrs, page, sel) ==
  IF tk.mode = "selection" /\ Len(sel) > 0
  THEN IF usageThrows(sel, attrs) THEN Thrown(tk, "scan")
       ELSE EnterGroup([scanRoots(tk, sel, attrs) EXCEPT
                          !.selectionInfo = buildSelectionInfo(sel), !.hRoots = sel])
  ELSE IF tk.mode = "document"
  THEN documentPage([tk EXCEPT !.selectionInfo = <<Len(PageIds), " pages">>], 1, attrs)
  ELSE IF usageThrows(<<page>>, attrs) THEN Thrown(tk, "scan")
  ELSE EnterGroup([scanRoots(tk, <<page>>, attrs) EXCEPT !.hRoots = <<page>>])

\* { type: 'scan-progress', current, total, pageName }
ProgressMessage(i) ==
  [type |-> "scan-progress", current |-> i, total |-> Len(PageIds),
   pageName |-> NodeName(PageIds[i])]

\* ------------------------------------------------------------------------
\* Step 2: groupVariablesByCollection, one lookup
\* ------------------------------------------------------------------------

\* variant: only the first node of a token's node set is carried forward
groupPushFirstNode(groups, variable, nodeIds) ==
  LET collectionId == variable.variableCollectionId
      withKey == IF GroupHas(groups, collectionId) THEN groups
                 ELSE Append(groups, [collectionId |-> collectionId, vars |-> <<>>])
      i == GroupIndex(withKey, collectionId)
  IN  [withKey EXCEPT ![i].vars = Append(@, [id |-> variable.id, nodeIds |-> SubSeq(nodeIds, 1, 1)])]

groupPush(groups, variable, nodeIds) ==
  LET collectionId == variable.variableCollectionId
      withKey == IF GroupHas(groups, collectionId) THEN groups
                 ELSE Append(groups, [collectionId |-> collectionId, vars |-> <<>>])
      i == GroupIndex(withKey, collectionId)
  IN  [withKey EXCEPT ![i].vars = Append(@, [id |-> variable.id, nodeIds |-> nodeIds])]

\* variant: a rejected lookup is not caught
groupVariablesByCollectionUncaught(tk, o) ==
  LET entry  == tk.variableToNodes[tk.gi]
      handle == getVariableById(entry.id, o)
      \* a rejected lookup is caught and counted like a missing variable
      found  == handle # "throw" /\ handle # "none"
      grouped == [tk EXCEPT
                    !.variablesByCollection =
                       IF found THEN groupPush(@, HostVariables[handle], entry.nodeIds) ELSE @,
                    !.hGroup = Append(@, IF found THEN handle ELSE "none"),
                    !.hOutcomes = IF handle = "throw" THEN @ \cup {"throw"}
                                  ELSE IF handle = "none" THEN @ \cup {"null"} ELSE @]
  IN  IF handle = "throw" THEN Thrown(tk, "group")
      ELSE IF tk.gi + 1 <= Len(tk.variableToNodes)
      THEN [grouped EXCEPT !.gi = @ + 1]
      ELSE EnterFetch(grouped)

groupVariablesByCollection(tk, o) ==
  LET entry  == tk.variableToNodes[tk.gi]
      handle == getVariableById(entry.id, o)
      \* a rejected lookup is caught and counted like a missing variable
      found  == handle # "throw" /\ handle # "none"
      grouped == [tk EXCEPT
                    !.variablesByCollection =
                       IF found THEN groupPush(@, HostVariables[handle], entry.nodeIds) ELSE @,
                    !.hGroup = Append(@, IF found THEN handle ELSE "none"),
                    !.hOutcomes = IF handle = "throw" THEN @ \cup {"throw"}
                                  ELSE IF handle = "none" THEN @ \cup {"null"} ELSE @]
  IN  IF tk.gi + 1 <= Len(tk.variableToNodes)
      THEN [grouped EXCEPT !.gi = @ + 1]
      ELSE EnterFetch(grouped)

\* ------------------------------------------------------------------------
\* Step 3: fetchCollections, one lookup
\* ------------------------------------------------------------------------

fetchCollections(tk, o) ==
  LET collectionId == tk.variablesByCollection[tk.ci].collectionId
      handle == getVariableCollectionById(collectionId, o)
      fetched == IF handle = "none" THEN tk
                 ELSE [tk EXCEPT !.collections = Append(@, handle),
                                 !.hFetch = @ \cup {collectionId}]
  IN  IF handle = "throw" THEN Thrown(tk, "fetch")
      ELSE IF tk.ci + 1 <= Len(tk.variablesByCollection)
      THEN [fetched EXCEPT !.ci = @ + 1]
      ELSE EnterEnrich(fetched)

\* ------------------------------------------------------------------------
\* Step 4: enrichCollectionData, one lookup
\* ------------------------------------------------------------------------

ArrowPrefix == "-> "

UnknownAlias == [kind |-> "string", v |-> <<"Unknown alias">>, id |-> <<>>]

\* `${arrow}${aliasedVariable.name}`
AliasName(name) == [kind |-> "string", v |-> <<ArrowPrefix, name>>, id |-> <<>>]

\* await getVariableByIdAsync(varWithNodes.id)
enrichVariable(tk, o) ==
  LET collection == HostCollections[tk.collections[tk.ei]]
      varWithNodes == usedVarsInCollection(tk)[tk.vi]
      handle == getVariableById(varWithNodes.id, o)
  IN  IF handle = "throw" THEN Thrown(tk, "enrichVar")
      ELSE IF handle = "none" THEN NextVariable(tk)
      ELSE ProcessModes([tk EXCEPT !.variable = handle, !.valuesByMode = <<>>, !.mi = 1,
                                   !.hEnrich = @ \cup {<<collection.id, tk.vi>>}])

\* await getVariableByIdAsync(value.id) for the alias in mode tk.mi
enrichAlias(tk, o) ==
  LET collection == HostCollections[tk.collections[tk.ei]]
      variable == HostVariables[tk.variable]
      modeId == collection.modes[tk.mi].modeId
      value == variableValues[tk.variable][modeId]
      handle == getVariableById(value.id, o)
      rendered == IF handle # "none" THEN AliasName(HostVariables[handle].name)
                  ELSE UnknownAlias
  IN  IF handle = "throw" THEN Thrown(tk, "enrichAlias")
      ELSE ProcessModes([tk EXCEPT
                           !.valuesByMode = Append(@, [modeId |-> modeId, value |-> rendered]),
                           !.mi = @ + 1,
                           !.hAlias = @ \cup {[variable |-> tk.variable, vi |-> tk.vi,
                                               collectionId |-> collection.id,
                                               modeId |-> modeId, target |-> handle]}])

\* await VariableService.isGhostLibrary(collection), then the push
enrichGhost(tk, libs, o) ==
  LET collection == HostCollections[tk.collections[tk.ei]]
      isGhost == isGhostLibrary(collection, libs, o)
  IN  NextCollection(PushCollection([tk EXCEPT !.hLibs = @ \cup {[collectionId |-> collection.id,
                                                                   outcome |-> o, libs |-> libs]}],
                                    LastSegment(collection.key), isGhost))

\* ------------------------------------------------------------------------
\* Step 5 and 6: the two list reads, the filter, the result
\* ------------------------------------------------------------------------

\* `ignoredUnboundElements_byId_${documentId}`: a key is the prefix followed by
\* the characters of the document id
getIgnoreByIdKey(documentId) == <<"ignoredUnboundElements_by", "Id", "_">> \o documentId

getIgnoreByValueKey(documentId) == <<"ignoredUnboundElements_by", "Value", "_">> \o documentId

WINDOW_SIZE_KEY == <<"windowSize">>

\* figma.root.id
DocumentId == <<"D", "1">>

\* the id of another document the plugin has been run in
OtherDocumentId == <<"D", "2">>

readIgnoredIds(tk, storage) ==
  [tk EXCEPT !.ignoredByIds = storage[getIgnoreByIdKey(DocumentId)], !.pc = "readValues"]

readIgnoredValues(tk, storage, page) ==
  LET ignoredByValues == storage[getIgnoreByValueKey(DocumentId)]
  IN  [tk EXCEPT
         !.ignoredByValues = ignoredByValues,
         !.result = [collections |-> tk.collectionsData,
                     unboundElements |-> filterIgnoredElements(tk.unboundElements,
                                                               tk.ignoredByIds, ignoredByValues),
                     selectionInfo |-> tk.selectionInfo,
                     currentPageName |-> NodeName(page)],
         !.pc = "returned"]

\* ------------------------------------------------------------------------
\* Ignore store handlers (code.ts, figma.ui.onmessage and its helpers)
\* ------------------------------------------------------------------------

Message(type, elementId, valueType, value) ==
  [type |-> type, elementId |-> elementId, valueType |-> valueType, value |-> value,
   scanMode |-> ""]

IsElementRequest(msg) == msg.type \in {"ignore-element", "unignore-element"}

IsValueRequest(msg) == msg.type \in {"ignore-value", "unignore-value"}

\* the guards `if (msg.elementId)` and `if (msg.valueType && msg.value)`: an
\* empty string is falsy
acceptsMessage(msg) ==
  IF IsElementRequest(msg) THEN msg.elementId # ""
  ELSE IF IsValueRequest(msg) THEN msg.valueType # "" /\ msg.value # <<>>
  ELSE TRUE

\* variant: the by-id key is derived from another document's id
storageKeyOfOther(msg) ==
  IF IsElementRequest(msg) THEN getIgnoreByIdKey(OtherDocumentId)
  ELSE getIgnoreByValueKey(DocumentId)

storageKeyOf(msg) ==
  IF IsElementRequest(msg) THEN getIgnoreByIdKey(DocumentId)
  ELSE getIgnoreByValueKey(DocumentId)

\* the moment a handler runs at: the number of messages posted and the store
Now(posted, store) == [posted |-> posted, store |-> store]

\* refreshData(): getVariableCollections(scanMode) runs up to its first await
refreshData(tk, mode, attrs, page, sel, now) ==
  scanNodesForVariables([tk EXCEPT !.mode = mode, !.hStart = now.posted, !.hStore = now.store],
                        attrs, page, sel)

\* the handler from the arrival of msg up to its first await
onmessage(msg, mode, attrs, page, sel, now) ==
  LET tk == NewTask(msg.type, mode, msg)
  IN  IF msg.type = "refresh" THEN refreshData(tk, mode, attrs, page, sel, now)
      ELSE IF msg.type = "update-variable"
      THEN \* msg.variableId && msg.modeId !== undefined && msg.value !== undefined
           IF msg.variableId # <<>> THEN [tk EXCEPT !.pc = "editVar"] ELSE [tk EXCEPT !.pc = "done"]
      ELSE IF acceptsMessage(msg) THEN [tk EXCEPT !.pc = "getAsync"]
      ELSE [tk EXCEPT !.pc = "done"]

\* ignoredValues.some(item => item.valueType === msg.valueType && item.value === msg.value)
valueExists(ignoredValues, msg) ==
  \E i \in 1..Len(ignoredValues) :
    ignoredValues[i].valueType = msg.valueType /\ ignoredValues[i].value = msg.value

\* the handler resumes from `await figma.clientStorage.getAsync(storageKey) || []`
\* variant: an add does not look for the entry first
storageGotAlwaysPush(tk, stored, mode, attrs, page, sel, now) ==
  LET msg == tk.msg
  IN  CASE msg.type = "ignore-element" ->
             IF TRUE
             THEN [tk EXCEPT !.pending = Append(stored, msg.elementId), !.pc = "setAsync"]
             ELSE refreshData(tk, mode, attrs, page, sel, now)
        [] msg.type = "unignore-element" ->
             [tk EXCEPT !.pending = SelectSeq(stored, LAMBDA id : id # msg.elementId),
                        !.pc = "setAsync"]
        [] msg.type = "ignore-value" ->
             IF TRUE
             THEN [tk EXCEPT !.pending = Append(stored, [valueType |-> msg.valueType,
                                                         value |-> msg.value]),
                             !.pc = "setAsync"]
             ELSE refreshData(tk, mode, attrs, page, sel, now)
        [] OTHER ->
             [tk EXCEPT !.pending =
                          SelectSeq(stored, LAMBDA item : ~(item.valueType = msg.valueType
                                                            /\ item.value = msg.value)),
                        !.pc = "setAsync"]

storageGot(tk, stored, mode, attrs, page, sel, now) ==
  LET msg == tk.msg
  IN  CASE msg.type = "ignore-element" ->
             IF ~Includes(stored, msg.elementId)
             THEN [tk EXCEPT !.pending = Append(stored, msg.elementId), !.pc = "setAsync"]
             ELSE refreshData(tk, mode, attrs, page, sel, now)
        [] msg.type = "unignore-element" ->
             [tk EXCEPT !.pending = SelectSeq(stored, LAMBDA id : id # msg.elementId),
                        !.pc = "setAsync"]
        [] msg.type = "ignore-value" ->
             IF ~valueExists(stored, msg)
             THEN [tk EXCEPT !.pending = Append(stored, [valueType |-> msg.valueType,
                                                         value |-> msg.value]),
                             !.pc = "setAsync"]
             ELSE refreshData(tk, mode, attrs, page, sel, now)
        [] OTHER ->
             [tk EXCEPT !.pending =
                          SelectSeq(stored, LAMBDA item : ~(item.valueType = msg.valueType
                                                            /\ item.value = msg.value)),
                        !.pc = "setAsync"]

\* figma.notify(...) after the write
Toast(msg) ==
  [type |-> "notify",
   text |-> CASE msg.type = "ignore-element" -> <<"Element hidden from future scans">>
              [] msg.type = "unignore-element" -> <<"Element will appear in future scans">>
              [] msg.type = "ignore-value" ->
                   <<"All ", msg.valueType, "s with ">> \o msg.value
                     \o <<" hidden from future scans">>
              [] OTHER -> <<"Value will appear in future scans">>]

\* the PluginMessage refreshData posts; scanMode is the module variable as it
\* is when the scan has returned
CollectionsData(result, mode) ==
  [type |-> "collections-data", data |-> result.collections,
   unboundElements |-> result.unboundElements, scanMode |-> mode,
   selectionInfo |-> result.selectionInfo, pageName |-> result.currentPageName]

\* after `await refreshData()`: the handler's next await
afterRefresh(tk) ==
  IF IsElementRequest(tk.msg) \/ IsValueRequest(tk.msg) THEN [tk EXCEPT !.pc = "listIds"]
  ELSE [tk EXCEPT !.pc = "done"]

\* variant: a result is dropped when a newer 'collections-data' has gone out
\* since its scan started
postResultUnlessNewer(posted, tk, mode) ==
  IF \E i \in (tk.hStart + 1)..Len(posted) : posted[i].type = "collections-data"
  THEN posted
  ELSE Append(posted, CollectionsData(tk.result, mode))

\* figma.ui.postMessage(message) of refreshData and loadInitialData
postResult(posted, tk, mode) == Append(posted, CollectionsData(tk.result, mode))

\* variant: the catch block also posts what the scan had gathered
refreshCatchPartial(tk) ==
  << [type |-> "collections-data", data |-> tk.collectionsData,
      unboundElements |-> tk.unboundElements, scanMode |-> tk.mode,
      selectionInfo |-> tk.selectionInfo, pageName |-> ""],
     [type |-> "error", error |-> <<"stage ", tk.hThrow>>] >>

\* refreshData, catch (error): the messages it posts
refreshCatch(tk) == << [type |-> "error", error |-> <<"stage ", tk.hThrow>>] >>

\* ------------------------------------------------------------------------
\* The 'update-variable' handler (code.ts, figma.ui.onmessage)
\* ------------------------------------------------------------------------

EditMessage(variableId, modeId, value) ==
  [type |-> "update-variable", elementId |-> "", valueType |-> "", value |-> value,
   scanMode |-> "", variableId |-> variableId, modeId |-> modeId]

\* figma.notify(text, { error: true })
NotifyError(text) == [type |-> "notify", text |-> <<text>>, error |-> TRUE]

\* parseFloat(value): the number written by the leading digits, as its
\* decimal digits without leading zeros; <<>> (NaN) when the string does not
\* start with a digit
parseFloat(value) ==
  LET IsDigit(c) == c \in Range(SubSeq(HexDigits, 1, 10))
      RECURSIVE Digits(_)
      Digits(i) ==
        IF i <= Len(value) /\ IsDigit(value[i]) THEN <<value[i]>> \o Digits(i + 1) ELSE <<>>
      RECURSIVE Number(_)
      Number(ds) == IF Len(ds) > 1 /\ ds[1] = "0" THEN Number(Tail(ds)) ELSE ds
  IN  Number(Digits(1))

\* the catch of the handler: figma.notify('Failed to update variable')
editFailed(tk) == [tk EXCEPT !.pc = "done", !.hEdit = "failed"]

\* the value is parsed by the variable's type and set; so is the outcome of
\* variable.setValueForMode(msg.modeId, parsedValue)
editParse(tk, so) ==
  LET variable == HostVariables[tk.target]
      parsedValue == IF variable.resolvedType = "FLOAT" THEN parseFloat(tk.msg.value)
                     ELSE tk.msg.value
  IN  IF variable.resolvedType = "FLOAT" /\ parsedValue = <<>>
      THEN [tk EXCEPT !.pc = "done", !.hEdit = "invalid"]
      ELSE IF so = "throw" THEN editFailed(tk)
      ELSE [tk EXCEPT !.pc = "setValue", !.hEdit = "applied",
                      !.pending = Literal(parsedValue)]

\* the handler resumes from await getVariableByIdAsync(msg.variableId)
editVariable(tk, o) ==
  LET handle == getVariableById(tk.msg.variableId, o)
  IN  IF handle = "throw" THEN editFailed(tk)
      ELSE IF handle = "none" THEN [tk EXCEPT !.pc = "done", !.hEdit = "notFound"]
      ELSE [tk EXCEPT !.target = handle, !.pc = "editCollection"]

\* the handler resumes from await getVariableCollectionByIdAsync(...)
editCollection(tk, o, so) ==
  LET collection == getVariableCollectionById(HostVariables[tk.target].variableCollectionId, o)
  IN  IF collection = "throw" THEN editFailed(tk)
      ELSE IF collection # "none" /\ HostCollections[collection].remote
      THEN [tk EXCEPT !.targetCollection = collection, !.pc = "editLibs"]
      ELSE editParse([tk EXCEPT !.targetCollection = collection], so)

\* the handler resumes from the library enumeration, whose inline test is
\* that of isGhostLibrary for a collection with a key; "Only block editing if
\* it's a valid (non-ghost) library"
editGhost(tk, libs, o, so) ==
  LET isGhost == isGhostLibrary(HostCollections[tk.targetCollection], libs, o)
  IN  IF ~isGhost THEN [tk EXCEPT !.pc = "done", !.hEdit = "rejected", !.hGhostCheck = o]
      ELSE editParse([tk EXCEPT !.hGhostCheck = o], so)

\* what the handler shows when it ends without an edit
editNotes(tk) ==
  CASE tk.hEdit = "rejected" ->
         <<NotifyError("Cannot edit library variables. Open the library file to edit.")>>
    [] tk.hEdit = "invalid" -> <<NotifyError("Invalid number value")>>
    [] tk.hEdit = "failed" -> <<NotifyError("Failed to update variable")>>
    [] OTHER -> <<>>

\* details of a listed element: the first stroke, else the first fill, and
\* 'Text without style' over both for an unstyled text node
ignoredDetails(node) ==
  LET paint ==
        IF node.strokes.kind = "list" /\ Len(node.strokes.paints) > 0
        THEN IF node.strokes.paints[1].type = "SOLID"
             THEN <<"Stroke: ">> \o PaintHex(node.strokes.paints[1]) ELSE <<>>
        ELSE IF node.fills.kind = "list" /\ Len(node.fills.paints) > 0
        THEN IF node.fills.paints[1].type = "SOLID"
             THEN <<"Fill: ">> \o PaintHex(node.fills.paints[1]) ELSE <<>>
        ELSE <<>>
  IN  IF node.type = "TEXT" /\ node.textStyleId = "" THEN <<"Text without style">> ELSE paint

\* walks node.parent up to the page; "" when the chain ends without one
RECURSIVE pageNameOf(_)
pageNameOf(id) ==
  IF id \in Range(PageIds) THEN NodeName(id)
  ELSE IF \E p \in NodeIds : Includes(Children(p), id)
  THEN pageNameOf(CHOOSE p \in NodeIds : Includes(Children(p), id))
  ELSE ""

\* one entry of ignoredElementsInfo in the 'ignore-element' / 'unignore-element' handlers
elementInfo(elementId, attrs) ==
  IF elementId \in NodeIds
  THEN [id |-> elementId, name |-> NodeName(elementId), type |-> attrs[elementId].type,
        details |-> ignoredDetails(attrs[elementId])]
  ELSE [id |-> elementId, name |-> "(Deleted)", type |-> "UNKNOWN",
        details |-> <<"Element no longer exists">>]

\* one by-id entry of ignoredElementsInfo in sendIgnoredElementsList
listedElementInfo(elementId, attrs) ==
  IF elementId \in NodeIds
  THEN [ignoreType |-> "by-id", id |-> elementId, name |-> NodeName(elementId),
        type |-> attrs[elementId].type, details |-> ignoredDetails(attrs[elementId]),
        pageName |-> pageNameOf(elementId)]
  ELSE [ignoreType |-> "by-id", id |-> elementId, name |-> "(Deleted)", type |-> "UNKNOWN",
        details |-> <<"Element no longer exists">>, pageName |-> ""]

\* one by-value entry of ignoredElementsInfo in sendIgnoredElementsList
listedValueInfo(ignored) ==
  [ignoreType |-> "by-value", valueType |-> ignored.valueType,
   value |-> IF ignored.valueType = "text-no-style" THEN <<"Text without style">>
             ELSE ignored.value]

\* the 'ignored-elements-list' message of the element handlers
ElementsList(ignoredElementIds, attrs) ==
  [type |-> "ignored-elements-list", ignoredElementIds |-> ignoredElementIds,
   ignoredElements |-> [i \in 1..Len(ignoredElementIds) |->
                          elementInfo(ignoredElementIds[i], attrs)]]

\* the 'ignored-elements-list' message of sendIgnoredElementsList
sendIgnoredElementsList(ignoredByIds, ignoredByValues, attrs) ==
  [type |-> "ignored-elements-list", ignoredElementIds |-> ignoredByIds,
   ignoredElements |-> [i \in 1..Len(ignoredByIds) |-> listedElementInfo(ignoredByIds[i], attrs)]
                         \o [i \in 1..Len(ignoredByValues) |-> listedValueInfo(ignoredByValues[i])]]

\* ------------------------------------------------------------------------
\* State
\* ------------------------------------------------------------------------

Attrs == [id \in NodeIds |-> IF id \in SceneNodeIds THEN nodes[id] ELSE PageAttrs]

Red   == << <<ColorDen, ColorDen>>, <<0, ColorDen>>, <<0, ColorDen>> >>
Green == << <<0, ColorDen>>, <<ColorDen, ColorDen>>, <<0, ColorDen>> >>
Grey  == << <<1, ColorDen>>, <<1, ColorDen>>, <<1, ColorDen>> >>

Solid(color) == [type |-> "SOLID", visible |-> TRUE, color |-> color]

Paints(ps) == [kind |-> "list", paints |-> ps]

NodeAttrs(type, textStyleId, characters, fills, strokes, boundVariables) ==
  [type |-> type, textStyleId |-> textStyleId, characters |-> characters,
   fills |-> fills, strokes |-> strokes, boundVariables |-> boundVariables]

Slot(key, kind, ids) == [key |-> key, kind |-> kind, ids |-> ids]

\* boundVariables objects the scanned nodes may carry
BindingChoices ==
  { <<>>,
    \* the same token through two property slots
    << Slot("fills", "array", <<IdBlue>>), Slot("strokes", "array", <<IdBlue>>) >>,
    \* a routing-wrapped identifier and a library token in one array
    << Slot("fills", "array", <<IdBlueRouted, IdLib>>) >>,
    \* a single binding and nested keyed bindings, one to a deleted token
    << Slot("width", "single", <<IdText>>),
       Slot("componentProperties", "keyed", <<IdGone, NullBinding, IdOrphan, IdText>>) >>,
    << Slot("strokes", "array", <<NullBinding, IdLib>>), Slot("opacity", "single", <<IdBlue>>) >> }

\* paints and text of the scene nodes when only the bindings vary
BaseNode(id, boundVariables) ==
  CASE id = "1:1" -> NodeAttrs("FRAME", "", <<>>, Paints(<<Solid(Red)>>), Paints(<<>>), boundVariables)
    [] id = "1:2" -> NodeAttrs("TEXT", "", <<"H", "i">>, Paints(<<Solid(Grey)>>), Paints(<<>>), boundVariables)
    [] id = "1:3" -> NodeAttrs("RECTANGLE", "", <<>>, Paints(<<>>), Paints(<<Solid(Red)>>), boundVariables)
    [] OTHER      -> NodeAttrs("RECTANGLE", "", <<>>, Paints(<<Solid(Green)>>), Paints(<<Solid(Red)>>), boundVariables)

\* (mode, current page, selection) of an invocation
ScopeChoices ==
  { <<"page", "P1", <<>> >>, <<"page", "P2", <<>> >>, <<"document", "P1", <<>> >>,
    <<"selection", "P1", <<>> >>, <<"selection", "P1", <<"1:1">> >>,
    <<"selection", "P1", <<"1:2", "1:3">> >>, <<"selection", "P1", <<"1:3", "1:1">> >>,
    <<"selection", "P2", <<"2:1">> >> }

\* what the store holds for the other document, and the window size
OtherStorage ==
  [k \in {getIgnoreByIdKey(OtherDocumentId), getIgnoreByValueKey(OtherDocumentId), WINDOW_SIZE_KEY} |->
     IF k = getIgnoreByIdKey(OtherDocumentId) THEN <<"1:2", "2:1">>
     ELSE IF k = getIgnoreByValueKey(OtherDocumentId)
          THEN <<[valueType |-> "fill", value |-> PaintHex(Solid(Green))]>>
          ELSE <<>>]

StorageKeys == {getIgnoreByIdKey(DocumentId), getIgnoreByValueKey(DocumentId)} \cup DOMAIN OtherStorage

\* the store when nothing has been ignored in this document
EmptyStorage == [k \in StorageKeys |-> IF k \in DOMAIN OtherStorage THEN OtherStorage[k] ELSE <<>>]

\* ------------------------------------------------------------------------
\* Specification Spec: one invocation of getVariableCollections(mode)
\* ------------------------------------------------------------------------

Init ==
  /\ \E b1, b3, b4 \in BindingChoices :
       nodes = [id \in SceneNodeIds |->
                  BaseNode(id, CASE id = "1:1" -> b1 [] id = "1:3" -> b3
                                 [] id = "2:1" -> b4 [] OTHER -> <<>>)]
  /\ \E sc \in ScopeChoices :
       /\ scanMode = sc[1]
       /\ currentPage = sc[2]
       /\ selection = sc[3]
       /\ tasks = <<NewTask("scan", sc[1], NoMsg)>>
  /\ teamLibraries \in {{}, {LibKey}}
  /\ variableValues = InitialValues
  /\ \E ids \in {<<>>, <<"1:3">>} :
       clientStorage = [EmptyStorage EXCEPT ![getIgnoreByIdKey(DocumentId)] = ids]
  /\ outbox = <<>>
  /\ SessionStart

Host == <<nodes, currentPage, selection, teamLibraries, variableValues, clientStorage, scanMode,
          Session>>

\* the progress message of a scan that has just entered an iteration of the
\* document loop (the message precedes the scan of the page, which may throw)
Posts(tk) ==
  IF tk.pc = "pages" \/ (tk.pc = "thrown" /\ tk.hThrow = "scan" /\ tk.pageIdx > 0)
  THEN <<ProgressMessage(tk.pageIdx)>> ELSE <<>>

\* A step of task t to tk2; a page iteration of the document loop posts its
\* progress message
TaskStep(t, tk2) ==
  /\ tasks' = [tasks EXCEPT ![t] = tk2]
  /\ outbox' = outbox \o Posts(tk2)

\* getVariableCollections is called: step 1 up to its first await
Call(t) ==
  /\ tasks[t].pc = "call"
  /\ TaskStep(t, scanNodesForVariables(tasks[t], Attrs, currentPage, selection))
  /\ UNCHANGED Host

\* the setTimeout(0) of the document loop fires
PageYield(t) ==
  /\ tasks[t].pc = "pages"
  /\ TaskStep(t, documentPage(tasks[t], tasks[t].pageIdx + 1, Attrs))
  /\ UNCHANGED Host

GroupLookup(t) ==
  /\ tasks[t].pc = "group"
  /\ \E o \in LookupOutcomes : TaskStep(t, groupVariablesByCollection(tasks[t], o))
  /\ UNCHANGED Host

FetchLookup(t) ==
  /\ tasks[t].pc = "fetch"
  /\ \E o \in LookupOutcomes : TaskStep(t, fetchCollections(tasks[t], o))
  /\ UNCHANGED Host

EnrichVariableLookup(t) ==
  /\ tasks[t].pc = "enrichVar"
  /\ \E o \in LookupOutcomes : TaskStep(t, enrichVariable(tasks[t], o))
  /\ UNCHANGED Host

EnrichAliasLookup(t) ==
  /\ tasks[t].pc = "enrichAlias"
  /\ \E o \in LookupOutcomes : TaskStep(t, enrichAlias(tasks[t], o))
  /\ UNCHANGED Host

GhostLookup(t) ==
  /\ tasks[t].pc = "ghost"
  /\ \E o \in {"ok", "throw"} : TaskStep(t, enrichGhost(tasks[t], teamLibraries, o))
  /\ UNCHANGED Host

ReadIgnoredIds(t) ==
  /\ tasks[t].pc = "readIds"
  /\ TaskStep(t, readIgnoredIds(tasks[t], clientStorage))
  /\ UNCHANGED Host

ReadIgnoredValues(t) ==
  /\ tasks[t].pc = "readValues"
  /\ tasks[t].kind = "scan"
  /\ TaskStep(t, readIgnoredValues(tasks[t], clientStorage, currentPage))
  /\ UNCHANGED Host

Next ==
  \/ \E t \in DOMAIN tasks : Call(t)
  \/ \E t \in DOMAIN tasks : PageYield(t)
  \/ \E t \in DOMAIN tasks : GroupLookup(t)
  \/ \E t \in DOMAIN tasks : FetchLookup(t)
  \/ \E t \in DOMAIN tasks : EnrichVariableLookup(t)
  \/ \E t \in DOMAIN tasks : EnrichAliasLookup(t)
  \/ \E t \in DOMAIN tasks : GhostLookup(t)
  \/ \E t \in DOMAIN tasks : ReadIgnoredIds(t)
  \/ \E t \in DOMAIN tasks : ReadIgnoredValues(t)

Spec == Init /\ [][Next]_vars

\* ------------------------------------------------------------------------
\* Properties of the pipeline (specification Spec)
\* ------------------------------------------------------------------------

Returned(t) == tasks[t].pc = "returned"

\* the variables of every collection of a result, with their collection id
OutputVariables(result) ==
  UNION { { [collectionId |-> result.collections[c].id, v |-> result.collections[c].variables[i]] :
              i \in 1..Len(result.collections[c].variables) } :
          c \in 1..Len(result.collections) }

ResultCollectionIds(result) == { result.collections[c].id : c \in 1..Len(result.collections) }

\* C4. Collection emptiness invariant: no CollectionData of a returned result
\* has an empty variables array, whatever lookups failed.
C4_NoEmptyCollection ==
  \A t \in DOMAIN tasks :
    Returned(t) =>
      \A c \in 1..Len(tasks[t].result.collections) :
        Len(tasks[t].result.collections[c].variables) > 0

\* C4 witness: a result was returned from which a fetched collection was
\* dropped because none of its used tokens survived enrichment.
C4_Witness ==
  \E t \in DOMAIN tasks :
    /\ Returned(t)
    /\ \E collectionId \in tasks[t].hFetch :
         collectionId \notin ResultCollectionIds(tasks[t].result)
    /\ Len(tasks[t].result.collections) > 0

\* C5. Set semantics: a node bound to the same token through several property
\* slots is one member of that token's node set; no nodeIds of an output
\* variable holds a node id twice.
C5_SetSemantics ==
  \A t \in DOMAIN tasks :
    /\ \A i \in 1..Len(tasks[t].variableToNodes) : NoDuplicates(tasks[t].variableToNodes[i].nodeIds)
    /\ Returned(t) => \A ov \in OutputVariables(tasks[t].result) : NoDuplicates(ov.v.nodeIds)

\* some slot-pair of the node carries the same identifier twice
BoundTwice(node, id) ==
  \E i, j \in 1..Len(node.boundVariables) :
    /\ i # j
    /\ Includes(node.boundVariables[i].ids, id)
    /\ Includes(node.boundVariables[j].ids, id)

\* C5 witness: an output variable lists a node that binds it through two slots.
C5_Witness ==
  \E t \in DOMAIN tasks :
    /\ Returned(t)
    /\ \E ov \in OutputVariables(tasks[t].result) :
         \E n \in SceneNodeIds :
           /\ Includes(ov.v.nodeIds, n)
           /\ BoundTwice(nodes[n], ov.v.id)

\* every node id a result mentions
ResultNodeIds(result) ==
  UNION { Range(ov.v.nodeIds) : ov \in OutputVariables(result) }
    \cup { result.unboundElements[i].id : i \in 1..Len(result.unboundElements) }

\* C6. Scope containment: with 'selection' scope and selected roots R, every
\* node id of the result is a descendant of, or equal to, some root in R.
C6_ScopeContainment ==
  \A t \in DOMAIN tasks :
    (Returned(t) /\ tasks[t].mode = "selection") =>
      ResultNodeIds(tasks[t].result) \subseteq
        UNION { SubtreeIds(selection[i]) : i \in 1..Len(selection) }

\* C7. The usage map is keyed by normalized identifiers, and raw identifiers
\* with the same normal form share one entry.
C7_NormalizedKeys ==
  \A t \in DOMAIN tasks :
    LET m == tasks[t].variableToNodes
    IN  /\ \A i \in 1..Len(m) : m[i].id = extractVariableId(m[i].id)
        /\ \A i, j \in 1..Len(m) :
             extractVariableId(m[i].id) = extractVariableId(m[j].id) => i = j

\* the usage-map entries that resolved in step 2 into the given collection,
\* up to entry g: the position of entry g in that collection's group
GroupPosition(tk, g) ==
  Cardinality({ k \in 1..g :
                  /\ tk.hGroup[k] # "none"
                  /\ HostVariables[tk.hGroup[k]].variableCollectionId
                       = HostVariables[tk.hGroup[g]].variableCollectionId })

\* usage-map entry g resolved in step 2, its collection was fetched, and the
\* token resolved again in step 4
Survives(tk, g) ==
  /\ tk.hGroup[g] # "none"
  /\ HostVariables[tk.hGroup[g]].variableCollectionId \in tk.hFetch
  /\ <<HostVariables[tk.hGroup[g]].variableCollectionId, GroupPosition(tk, g)>> \in tk.hEnrich

\* C8. Usage provenance: every usage-map identifier that resolves, and whose
\* collection resolves, is in the output under its owning collection with
\* exactly the node ids the scan recorded for it; the output holds nothing else.
C8_Provenance ==
  \A t \in DOMAIN tasks :
    Returned(t) =>
      LET tk == tasks[t]
          survivors == { g \in 1..Len(tk.variableToNodes) : Survives(tk, g) }
          expected ==
            { [collectionId |-> HostVariables[tk.hGroup[g]].variableCollectionId,
               id |-> HostVariables[tk.hGroup[g]].id,
               nodeIds |-> Range(tk.variableToNodes[g].nodeIds)] : g \in survivors }
          actual ==
            { [collectionId |-> ov.collectionId, id |-> ov.v.id, nodeIds |-> Range(ov.v.nodeIds)] :
                ov \in OutputVariables(tk.result) }
      IN  /\ actual = expected
          /\ \A c \in 1..Len(tk.result.collections) :
               Len(tk.result.collections[c].variables) =
                 Cardinality({ g \in survivors :
                                 HostVariables[tk.hGroup[g]].variableCollectionId
                                   = tk.result.collections[c].id })

\* C8 witness: a result with tokens of two collections, one of them used by
\* two nodes, while another identifier of the usage map did not resolve.
C8_Witness ==
  \E t \in DOMAIN tasks :
    /\ Returned(t)
    /\ Len(tasks[t].result.collections) = 2
    /\ \E ov \in OutputVariables(tasks[t].result) : Len(ov.v.nodeIds) >= 2
    /\ \E g \in 1..Len(tasks[t].hGroup) : tasks[t].hGroup[g] = "none"

\* the value the output shows for a mode of an output variable
OutputValue(v, modeId) ==
  LET i == CHOOSE k \in 1..Len(v.valuesByMode) : v.valuesByMode[k].modeId = modeId
  IN  v.valuesByMode[i].value

\* C9. Alias rendering: an alias whose target resolves is shown as the arrow
\* and the target's name (one hop); an unresolvable target shows
\* 'Unknown alias' in that cell only; enrichment never throws.
C9_AliasRendering ==
  \A t \in DOMAIN tasks :
    LET tk == tasks[t]
    IN  /\ tk.hThrow # "enrichAlias"
        /\ Returned(t) =>
             \A c \in 1..Len(tk.result.collections) :
               \A i \in 1..Len(tk.result.collections[c].variables) :
                 LET v == tk.result.collections[c].variables[i]
                     source == HostVariables[HostVariableOf(v.id)]
                 IN  \A m \in 1..Len(tk.result.collections[c].modes) :
                       LET modeId == tk.result.collections[c].modes[m].modeId
                           value == variableValues[HostVariableOf(v.id)][modeId]
                       IN  IF value.kind = "alias"
                           THEN \E a \in tk.hAlias :
                                  /\ a.collectionId = tk.result.collections[c].id
                                  /\ a.modeId = modeId
                                  /\ HostVariables[a.variable].id = v.id
                                  /\ OutputValue(v, modeId) =
                                       IF a.target = "none" THEN UnknownAlias
                                       ELSE AliasName(HostVariables[a.target].name)
                           ELSE OutputValue(v, modeId) = value

\* C10. Ghost detection: a remote collection of the output is a ghost exactly
\* when its key is not among the library collections the host enumerates; a
\* local collection is never a ghost.
C10_GhostDetection ==
  \A t \in DOMAIN tasks :
    Returned(t) =>
      \A c \in 1..Len(tasks[t].result.collections) :
        LET cd == tasks[t].result.collections[c]
            collection == HostCollections[HostCollectionOf(cd.id)]
        IN  /\ ~cd.isRemote => ~cd.isGhost
            /\ (cd.isRemote /\ [collectionId |-> cd.id, outcome |-> "ok", libs |-> teamLibraries]
                                 \in tasks[t].hLibs)
                 => (cd.isGhost <=> collection.key \notin teamLibraries)

\* C10 witness: a result with a local collection and a remote collection that
\* is a ghost, the host enumerating no library with its key.
C10_Witness ==
  \E t \in DOMAIN tasks :
    /\ Returned(t)
    /\ \E c \in 1..Len(tasks[t].result.collections) :
         /\ tasks[t].result.collections[c].isRemote
         /\ tasks[t].result.collections[c].isGhost
         /\ [collectionId |-> tasks[t].result.collections[c].id, outcome |-> "ok",
             libs |-> teamLibraries] \in tasks[t].hLibs
    /\ \E c \in 1..Len(tasks[t].result.collections) : ~tasks[t].result.collections[c].isRemote

\* the progress messages posted so far
ProgressPosted == SelectSeq(outbox, LAMBDA m : m.type = "scan-progress")

\* C14. Document scan over N pages: pages are scanned one at a time in
\* document order, one progress message per page with current = 1..N and
\* total = N, the message of page i is posted when page i has been scanned,
\* and the scan yields once after each page.
C14_DocumentProgress ==
  \A t \in DOMAIN tasks :
    LET tk == tasks[t]
    IN  tk.mode = "document" =>
          /\ tk.hRoots = SubSeq(PageIds, 1, Len(tk.hRoots))
          /\ Len(tk.hProgress) = Len(tk.hRoots)
          /\ Len(ProgressPosted) = Len(tk.hProgress)
          /\ \A k \in 1..Len(tk.hProgress) :
               /\ tk.hProgress[k].current = k
               /\ ProgressPosted[k] = ProgressMessage(k)
               /\ tk.hProgress[k].scanned >= k
          /\ tk.pc = "pages" => tk.pageIdx = Len(tk.hRoots)
          /\ tk.pc \notin {"call", "pages"} => Len(tk.hRoots) = Len(PageIds)

\* the usage-map entries whose lookup in step 2 resolved
Resolved(tk) == { g \in 1..Len(tk.hGroup) : tk.hGroup[g] # "none" }

\* the (collection, token, node ids) triples of the grouped map
Grouped(tk) ==
  UNION { { [collectionId |-> tk.variablesByCollection[c].collectionId,
             id |-> tk.variablesByCollection[c].vars[i].id,
             nodeIds |-> tk.variablesByCollection[c].vars[i].nodeIds] :
              i \in 1..Len(tk.variablesByCollection[c].vars) } :
          c \in 1..Len(tk.variablesByCollection) }

GroupedCount(tk) ==
  LET RECURSIVE Sum(_)
      Sum(c) == IF c = 0 THEN 0 ELSE Len(tk.variablesByCollection[c].vars) + Sum(c - 1)
  IN  Sum(Len(tk.variablesByCollection))

\* C16. Usage grouper failure policy: an id whose lookup returns nothing or
\* raises is dropped without raising; every other id of the usage map is
\* grouped under its collection with its node ids, whatever happened to the
\* ids looked up before or after it.
C16_GrouperFailurePolicy ==
  \A t \in DOMAIN tasks :
    LET tk == tasks[t]
    IN  /\ tk.hThrow # "group"
        /\ Grouped(tk) =
             { [collectionId |-> HostVariables[tk.hGroup[g]].variableCollectionId,
                id |-> HostVariables[tk.hGroup[g]].id,
                nodeIds |-> tk.variableToNodes[g].nodeIds] : g \in Resolved(tk) }
        /\ GroupedCount(tk) = Cardinality(Resolved(tk))
        /\ tk.pc \notin {"call", "pages", "group"} => Len(tk.hGroup) = Len(tk.variableToNodes)

\* C16 witness: the grouper has finished a usage map of three ids in which one
\* lookup raised, one returned nothing, and the id looked up after both was
\* grouped.
C16_Witness ==
  \E t \in DOMAIN tasks :
    LET tk == tasks[t]
    IN  /\ tk.pc \notin {"call", "pages", "group"}
        /\ tk.hOutcomes = {"throw", "null"}
        /\ Len(tk.hGroup) = 3
        /\ Resolved(tk) = {3}

\* C17. Collection resolution failure is non-fatal: a collection id whose
\* lookup does not resolve is left out of the fetched list and of the output,
\* the scan is not aborted, and the other collections are still fetched.
C17_CollectionFailureNonFatal ==
  \A t \in DOMAIN tasks :
    LET tk == tasks[t]
    IN  /\ tk.hThrow # "fetch"
        /\ { HostCollections[tk.collections[c]].id : c \in 1..Len(tk.collections) } = tk.hFetch
        /\ Returned(t) => ResultCollectionIds(tk.result) \subseteq tk.hFetch

\* ------------------------------------------------------------------------
\* Specification SpecSelectionInfo: buildSelectionInfo applied to every list
\* of 1..MaxRoots scene nodes
\* ------------------------------------------------------------------------

InitSelectionInfo ==
  /\ nodes = [id \in SceneNodeIds |-> BaseNode(id, <<>>)]
  /\ currentPage = "P1"
  /\ selection \in UNION { [1..n -> SceneNodeIds] : n \in 1..MaxRoots }
  /\ teamLibraries = {}
  /\ variableValues = InitialValues
  /\ clientStorage = EmptyStorage
  /\ scanMode = "selection"
  /\ tasks = <<NewTask("selectionInfo", "selection", NoMsg)>>
  /\ outbox = <<>>
  /\ SessionStart

BuildSelectionInfo(t) ==
  /\ tasks[t].kind = "selectionInfo"
  /\ tasks[t].pc = "call"
  /\ tasks' = [tasks EXCEPT ![t].selectionInfo = buildSelectionInfo(selection),
                            ![t].hRoots = selection, ![t].pc = "done"]
  /\ UNCHANGED <<Host, outbox>>

NextSelectionInfo == \E t \in DOMAIN tasks : BuildSelectionInfo(t)

SpecSelectionInfo == InitSelectionInfo /\ [][NextSelectionInfo]_vars

\* C15. Selection-info formatting: for n root names buildSelectionInfo returns
\* the single name when n = 1, the names separated by ', ' when n is 2 or 3,
\* and '<first>, <second> + (n-2) more' when n >= 4; every name that appears
\* is the node's name, whole.
C15_SelectionInfoFormat ==
  \A t \in DOMAIN tasks :
    LET tk == tasks[t]
        n  == Len(tk.hRoots)
        name(i) == NodeName(tk.hRoots[i])
    IN  tk.pc = "done" =>
          tk.selectionInfo =
            CASE n = 1 -> <<name(1)>>
              [] n = 2 -> <<name(1), ", ", name(2)>>
              [] n = 3 -> <<name(1), ", ", name(2), ", ", name(3)>>
              [] OTHER -> <<name(1), ", ", name(2), " + ", n - 2, " more">>

\* C15 witness: a list of three names has been formatted, the longest list
\* that is still written out in full.
C15_Witness ==
  \E t \in DOMAIN tasks :
    /\ tasks[t].pc = "done"
    /\ Len(tasks[t].hRoots) = 3
    /\ tasks[t].selectionInfo = <<"Card", ", ", "Label", ", ", "Icon">>

\* ------------------------------------------------------------------------
\* Specification SpecIgnore: the UI sends ignore, unignore and refresh
\* requests; every request starts its own run of the async onmessage handler,
\* and the runs interleave at their awaits
\* ------------------------------------------------------------------------

\* the hex the UI cuts out of an element's details for an 'ignore-value' request
RedHex == PaintHex(Solid(Red))

\* the requests the UI sends in this specification
Requests ==
  { Message("refresh", "", "", <<>>),
    Message("ignore-element", "1:1", "", <<>>),
    Message("ignore-element", "1:2", "", <<>>),
    Message("unignore-element", "1:1", "", <<>>),
    Message("ignore-value", "", "text-no-style", <<>>),
    Message("ignore-value", "", "text-no-style", <<"text-no-style">>),
    Message("ignore-value", "", "fill", RedHex),
    Message("ignore-value", "", "stroke", RedHex),
    Message("unignore-value", "", "fill", RedHex) }

InitIgnore ==
  /\ nodes = [id \in SceneNodeIds |-> BaseNode(id, <<>>)]
  /\ scanMode \in {"page", "document"}
  /\ currentPage = "P1"
  /\ selection = <<>>
  /\ teamLibraries = {}
  /\ variableValues = InitialValues
  /\ clientStorage = EmptyStorage
  /\ tasks = <<>>
  /\ outbox = <<>>
  /\ SessionStart

\* the UI posts a request: the handler runs up to its first await
Request ==
  /\ Len(tasks) < MaxRequests
  /\ \E msg \in Requests :
       LET tk == onmessage(msg, scanMode, Attrs, currentPage, selection,
                           Now(Len(outbox), clientStorage))
       IN  /\ tasks' = Append(tasks, tk)
           /\ outbox' = outbox \o Posts(tk)
  /\ UNCHANGED Host

\* clientStorage.getAsync(storageKey) resolves in an ignore or unignore handler
StorageGet(t) ==
  /\ tasks[t].pc = "getAsync"
  /\ LET tk == storageGot(tasks[t], clientStorage[storageKeyOf(tasks[t].msg)],
                          scanMode, Attrs, currentPage, selection,
                          Now(Len(outbox), clientStorage))
     IN  /\ tasks' = [tasks EXCEPT ![t] = tk]
         /\ outbox' = outbox \o Posts(tk)
  /\ UNCHANGED Host

\* clientStorage.setAsync(storageKey, list) takes effect and resolves; the
\* handler shows its toast and calls refreshData
StorageSet(t) ==
  /\ tasks[t].pc = "setAsync"
  /\ clientStorage' = [clientStorage EXCEPT ![storageKeyOf(tasks[t].msg)] = tasks[t].pending]
  /\ LET tk == refreshData([tasks[t] EXCEPT !.hWrote = Len(outbox) + 1],
                           scanMode, Attrs, currentPage, selection,
                           Now(Len(outbox) + 1, clientStorage'))
     IN  /\ tasks' = [tasks EXCEPT ![t] = tk]
         /\ outbox' = Append(outbox, Toast(tasks[t].msg)) \o Posts(tk)
  /\ UNCHANGED <<nodes, currentPage, selection, teamLibraries, variableValues, scanMode, Session>>

\* the second list read of a scan started by refreshData resolves: the scan
\* returns, refreshData posts its result, the handler goes on
RefreshReturn(t) ==
  /\ tasks[t].pc = "readValues"
  /\ tasks[t].kind # "scan"
  /\ LET tk == readIgnoredValues(tasks[t], clientStorage, currentPage)
     IN  /\ outbox' = postResult(outbox, tk, scanMode)
         /\ tasks' = [tasks EXCEPT ![t] =
                        [afterRefresh(tk) EXCEPT
                           !.hPosted = IF outbox' # outbox THEN Len(outbox') ELSE 0]]
  /\ initialLoadDone' = (initialLoadDone \/ tasks[t].kind = "ready")
  /\ UNCHANGED <<nodes, currentPage, selection, teamLibraries, variableValues, clientStorage,
               scanMode, isProgrammaticPageChange, ui>>

\* the read of the by-id list after the refresh resolves: the element handlers
\* post their list, sendIgnoredElementsList goes on to the by-value list
ListIds(t) ==
  /\ tasks[t].pc = "listIds"
  /\ LET ids == clientStorage[getIgnoreByIdKey(DocumentId)]
     IN  IF IsElementRequest(tasks[t].msg)
         THEN /\ tasks' = [tasks EXCEPT ![t].pc = "done"]
              /\ outbox' = Append(outbox, ElementsList(ids, Attrs))
         ELSE /\ tasks' = [tasks EXCEPT ![t].pending = ids, ![t].pc = "listValues"]
              /\ outbox' = outbox
  /\ UNCHANGED Host

\* the read of the by-value list in sendIgnoredElementsList resolves
ListValues(t) ==
  /\ tasks[t].pc = "listValues"
  /\ tasks' = [tasks EXCEPT ![t].pc = "done"]
  /\ outbox' = Append(outbox, sendIgnoredElementsList(tasks[t].pending,
                                clientStorage[getIgnoreByValueKey(DocumentId)], Attrs))
  /\ UNCHANGED Host

\* the sizes a 'resize' message may carry; a zero width or height is falsy
WindowSizes == {[w |-> 800, h |-> 600], [w |-> 0, h |-> 600]}

\* the UI posts 'resize': the handler stores the size without awaiting
Resize ==
  /\ \E size \in WindowSizes :
       clientStorage' = IF size.w # 0 /\ size.h # 0
                        THEN [clientStorage EXCEPT ![WINDOW_SIZE_KEY] = size]
                        ELSE clientStorage
  /\ UNCHANGED <<nodes, currentPage, selection, teamLibraries, variableValues, scanMode, Session,
               tasks, outbox>>

NextIgnore ==
  \/ Request
  \/ Resize
  \/ \E t \in DOMAIN tasks : StorageGet(t)
  \/ \E t \in DOMAIN tasks : StorageSet(t)
  \/ \E t \in DOMAIN tasks : PageYield(t)
  \/ \E t \in DOMAIN tasks : ReadIgnoredIds(t)
  \/ \E t \in DOMAIN tasks : RefreshReturn(t)
  \/ \E t \in DOMAIN tasks : ListIds(t)
  \/ \E t \in DOMAIN tasks : ListValues(t)

SpecIgnore == InitIgnore /\ [][NextIgnore]_vars

\* ------------------------------------------------------------------------
\* Properties of the ignore store (specification SpecIgnore)
\* ------------------------------------------------------------------------

\* the scan of task t has returned its result
HasResult(t) == tasks[t].result.currentPageName # ""

\* the hex colour an entry's value is compared with, <<>> when details hold none
ResolvedHex(el) == IF el.details = <<>> THEN <<>> ELSE matchHex(el.details)

\* a by-value entry matches an element
EntryMatches(ignored, el) ==
  \/ /\ ignored.valueType = "stroke"
     /\ el.type = "stroke-no-variable"
     /\ ResolvedHex(el) # <<>>
     /\ ResolvedHex(el) = ignored.value
  \/ /\ ignored.valueType = "fill"
     /\ el.type = "fill-no-variable"
     /\ ResolvedHex(el) # <<>>
     /\ ResolvedHex(el) = ignored.value
  \/ /\ ignored.valueType = "text-no-style"
     /\ el.type \in {"text-no-style", "text-partial-style"}

MatchedByValue(el, values) == \E i \in 1..Len(values) : EntryMatches(values[i], el)

Suppressed(el, ids, values) == Includes(ids, el.id) \/ MatchedByValue(el, values)

\* C1. Filter contract: the unbound elements of a result are exactly the
\* scanned elements, in scan order, that match neither suppression list the
\* scan read: an element is removed if and only if its id is in the by-id
\* list or some by-value entry matches it.
C1_FilterContract ==
  \A t \in DOMAIN tasks :
    HasResult(t) =>
      LET input == tasks[t].unboundElements
          out   == tasks[t].result.unboundElements
          kept  == { i \in 1..Len(input) :
                       ~Suppressed(input[i], tasks[t].ignoredByIds, tasks[t].ignoredByValues) }
      IN  /\ Len(out) = Cardinality(kept)
          /\ \A i \in kept : out[Cardinality({ j \in kept : j <= i })] = input[i]

\* C1 witness: a scan filtered with both lists non-empty removed one element
\* by id only, another by a matching value entry only, and kept a third.
C1_Witness ==
  \E t \in DOMAIN tasks :
    /\ HasResult(t)
    /\ LET input == tasks[t].unboundElements
           ids == tasks[t].ignoredByIds
           values == tasks[t].ignoredByValues
       IN  /\ \E i \in 1..Len(input) :
                Includes(ids, input[i].id) /\ ~MatchedByValue(input[i], values)
           /\ \E i \in 1..Len(input) :
                ~Includes(ids, input[i].id) /\ MatchedByValue(input[i], values)
           /\ \E i \in 1..Len(input) : ~Suppressed(input[i], ids, values)
           /\ Len(tasks[t].result.unboundElements) < Len(input)

\* the element requests for E whose store write was in effect when the scan
\* of task s started
ByIdWriters(E, s) ==
  { u \in DOMAIN tasks :
      /\ IsElementRequest(tasks[u].msg)
      /\ tasks[u].msg.elementId = E
      /\ tasks[u].hWrote \in 1..tasks[s].hStart }

LastByIdWriter(E, s) ==
  CHOOSE u \in ByIdWriters(E, s) :
    \A w \in ByIdWriters(E, s) : tasks[w].hWrote <= tasks[u].hWrote

\* request u has not written yet, or wrote after request last
PendingOrLater(u, last) ==
  tasks[u].pc \in {"getAsync", "setAsync"} \/ tasks[u].hWrote > tasks[last].hWrote

\* when the scan of s started, the latest by-id write for E was made by a
\* request of the given type, and no request of the opposite type for E is
\* still to write or has written since
LastRequestFor(E, s, type, opposite) ==
  /\ ByIdWriters(E, s) # {}
  /\ tasks[LastByIdWriter(E, s)].msg.type = type
  /\ \A u \in DOMAIN tasks :
       (tasks[u].msg.type = opposite /\ tasks[u].msg.elementId = E)
         => ~PendingOrLater(u, LastByIdWriter(E, s))

\* C2. Ignore round-trip: a scan started after a by-id ignore of E was added
\* has no entry with id E; a scan started after E was unignored has E's
\* entries again, those that no by-value entry matches.
C2_IgnoreRoundTrip ==
  \A s \in DOMAIN tasks :
    HasResult(s) =>
      \A E \in SceneNodeIds :
        /\ LastRequestFor(E, s, "ignore-element", "unignore-element")
             => \A i \in 1..Len(tasks[s].result.unboundElements) :
                  tasks[s].result.unboundElements[i].id # E
        /\ LastRequestFor(E, s, "unignore-element", "ignore-element")
             => \A i \in 1..Len(tasks[s].unboundElements) :
                  LET el == tasks[s].unboundElements[i]
                  IN  (el.id = E /\ ~MatchedByValue(el, tasks[s].ignoredByValues))
                        => Includes(tasks[s].result.unboundElements, el)

\* the 'ignore-value' request u was handled before the scan of s started, and
\* no request to unignore the same pair was ever sent
HasIgnoredValue(u, s) ==
  /\ tasks[u].msg.type = "ignore-value"
  /\ \/ ~acceptsMessage(tasks[u].msg) /\ u < s
     \/ tasks[u].hWrote \in 1..tasks[s].hStart
  /\ \A w \in DOMAIN tasks :
       ~(/\ tasks[w].msg.type = "unignore-value"
         /\ tasks[w].msg.valueType = tasks[u].msg.valueType
         /\ tasks[w].msg.value = tasks[u].msg.value)

\* no request hides element el by id, and none ignores a value of the type
NotOtherwiseIgnored(el, valueType) ==
  \A w \in DOMAIN tasks :
    /\ ~(tasks[w].msg.type = "ignore-element" /\ tasks[w].msg.elementId = el.id)
    /\ ~(tasks[w].msg.type = "ignore-value" /\ tasks[w].msg.valueType = valueType)

\* the entries of the given type with the given hex are gone from the result
\* of s, and the entries of the other paint type with that hex are still there
PaintBreadth(s, hex, type, otherType, otherValueType) ==
  /\ \A i \in 1..Len(tasks[s].result.unboundElements) :
       LET el == tasks[s].result.unboundElements[i]
       IN  ~(el.type = type /\ ResolvedHex(el) = hex)
  /\ \A i \in 1..Len(tasks[s].unboundElements) :
       LET el == tasks[s].unboundElements[i]
       IN  (el.type = otherType /\ ResolvedHex(el) = hex
              /\ NotOtherwiseIgnored(el, otherValueType))
             => Includes(tasks[s].result.unboundElements, el)

SamePair(item, msg) == item.valueType = msg.valueType /\ item.value = msg.value

\* the stored list holds the entry an add request is for
Present(stored, msg) ==
  IF msg.type = "ignore-element" THEN Includes(stored, msg.elementId)
  ELSE \E i \in 1..Len(stored) : SamePair(stored[i], msg)

IsAdd(msg) == msg.type \in {"ignore-element", "ignore-value"}

\* C18. Ignore Store add is idempotent: starting from empty lists, after any
\* sequence of add and remove requests the by-value list holds no two entries
\* with the same (valueType, value) pair and the by-id list holds no id
\* twice; an add that finds its entry in the list it has read issues no write
\* and leaves the store as it is.
C18_AddIdempotent ==
  [][ /\ NoDuplicates(clientStorage'[getIgnoreByIdKey(DocumentId)])
      /\ NoDuplicates(clientStorage'[getIgnoreByValueKey(DocumentId)])
      /\ \A t \in DOMAIN tasks :
           ( /\ tasks[t].pc = "getAsync"
             /\ tasks'[t].pc # "getAsync"
             /\ IsAdd(tasks[t].msg)
             /\ Present(clientStorage[storageKeyOf(tasks[t].msg)], tasks[t].msg) )
           => /\ clientStorage' = clientStorage
              /\ tasks'[t].pc # "setAsync"
              /\ tasks'[t].pending = <<>>
      /\ \A t \in DOMAIN tasks :
           tasks'[t].pc = "setAsync" => NoDuplicates(tasks'[t].pending) ]_vars

\* C18 witness: an add request found its entry in the stored list, wrote
\* nothing and went on to its refresh, and the list holds the entry once.
C18_Witness ==
  \E t \in DOMAIN tasks :
    LET tk == tasks[t]
    IN  /\ IsAdd(tk.msg)
        /\ tk.pc \notin {"call", "getAsync", "setAsync"}
        /\ tk.hWrote = 0
        /\ tk.pending = <<>>
        /\ Present(clientStorage[storageKeyOf(tk.msg)], tk.msg)
        /\ \E u \in DOMAIN tasks : u # t /\ tasks[u].msg = tk.msg /\ tasks[u].hWrote > 0

\* the longest document id the storage keys are compared over
MaxIdLen == 2

\* document ids made of characters that also occur in the key prefixes
KeyDocumentIds == UNION { [1..n -> {"D", "1", "_", "Id", "Value"}] : n \in 1..MaxIdLen }

\* the keys derived from the ids, and the window-size key
AllKeys ==
  { getIgnoreByIdKey(d) : d \in KeyDocumentIds } \cup
  { getIgnoreByValueKey(d) : d \in KeyDocumentIds } \cup {WINDOW_SIZE_KEY}

\* a list of ids, or of value entries, holds something the store holds for
\* the other document only
IdsFromOther(ids) == Includes(ids, "2:1")

ValuesFromOther(values) ==
  \E i \in 1..Len(values) :
    Includes(OtherStorage[getIgnoreByValueKey(OtherDocumentId)], values[i])

\* C19. Per-document namespacing: the handlers of this document read and
\* write only the two keys derived from its id; the lists of another document
\* stay as they are, also when the window size is stored; and the by-id key,
\* the by-value key and the window-size key of any documents are all different.
C19_PerDocumentKeys ==
  /\ \A k \in {getIgnoreByIdKey(OtherDocumentId), getIgnoreByValueKey(OtherDocumentId)} :
       clientStorage[k] = OtherStorage[k]
  /\ \A t \in DOMAIN tasks :
       /\ tasks[t].pc = "setAsync" =>
            IF IsValueRequest(tasks[t].msg) THEN ~ValuesFromOther(tasks[t].pending)
            ELSE ~IdsFromOther(tasks[t].pending)
       /\ tasks[t].pc = "listValues" => ~IdsFromOther(tasks[t].pending)
       /\ ~IdsFromOther(tasks[t].ignoredByIds)
       /\ ~ValuesFromOther(tasks[t].ignoredByValues)
  /\ ~IdsFromOther(clientStorage[getIgnoreByIdKey(DocumentId)])
  /\ ~ValuesFromOther(clientStorage[getIgnoreByValueKey(DocumentId)])
  /\ Cardinality(AllKeys) = 2 * Cardinality(KeyDocumentIds) + 1

\* C19 witness: both lists of this document have been written and the window
\* size has been stored, next to the other document's lists.
C19_Witness ==
  /\ clientStorage[getIgnoreByIdKey(DocumentId)] # <<>>
  /\ clientStorage[getIgnoreByValueKey(DocumentId)] # <<>>
  /\ clientStorage[WINDOW_SIZE_KEY] # <<>>
  /\ clientStorage[getIgnoreByIdKey(OtherDocumentId)] # <<>>

\* C20. The two suppression lists are read at scan start, before traversal
\* and token resolution: the lists a scan filters with are the lists as
\* stored when the scan was started.
C20_ListsReadAtScanStart ==
  \A t \in DOMAIN tasks :
    HasResult(t) =>
      /\ tasks[t].ignoredByIds = tasks[t].hStore[getIgnoreByIdKey(DocumentId)]
      /\ tasks[t].ignoredByValues = tasks[t].hStore[getIgnoreByValueKey(DocumentId)]

\* ------------------------------------------------------------------------
\* Specification SpecEdit: the UI sends 'update-variable' and 'refresh'
\* requests for a document whose frame is bound to the library token; the
\* handlers interleave at their awaits
\* ------------------------------------------------------------------------

\* the most requests the UI sends in this specification
MaxEdits == 2

EditRequests ==
  { Message("refresh", "", "", <<>>),
    EditMessage(IdLib, "lm1", RedHex),
    EditMessage(IdBlue, "m1", RedHex),
    EditMessage(IdOrphan, "m1", <<"0", "1", "2", "p", "x">>),
    EditMessage(IdOrphan, "m1", <<"p", "x">>),
    EditMessage(IdGone, "m1", RedHex),
    EditMessage(<<>>, "m1", RedHex) }

InitEdit ==
  /\ nodes = [id \in SceneNodeIds |->
                BaseNode(id, IF id = "1:1" THEN <<Slot("fills", "array", <<IdLib>>)>> ELSE <<>>)]
  /\ scanMode = "page"
  /\ currentPage = "P1"
  /\ selection = <<>>
  /\ teamLibraries \in {{}, {LibKey}}
  /\ variableValues = InitialValues
  /\ clientStorage = EmptyStorage
  /\ tasks = <<>>
  /\ outbox = <<>>
  /\ SessionStart

\* the UI posts a request: the handler runs up to its first await
RequestEdit ==
  /\ Len(tasks) < MaxEdits
  /\ \E msg \in EditRequests :
       tasks' = Append(tasks, onmessage(msg, scanMode, Attrs, currentPage, selection,
                                        Now(Len(outbox), clientStorage)))
  /\ UNCHANGED <<Host, outbox>>

\* A step of the 'update-variable' handler of task t to tk2: when the value
\* is set the handler shows its toast and calls refreshData, otherwise it
\* shows why it ended
EditStep(t, tk2) ==
  IF tk2.pc = "setValue"
  THEN /\ variableValues' = [variableValues EXCEPT ![tk2.target][tk2.msg.modeId] = tk2.pending]
       /\ tasks' = [tasks EXCEPT ![t] = refreshData([tk2 EXCEPT !.pending = <<>>], scanMode, Attrs,
                                                    currentPage, selection,
                                                    Now(Len(outbox) + 1, clientStorage))]
       /\ outbox' = Append(outbox, [type |-> "notify",
                                    text |-> <<"Updated ", HostVariables[tk2.target].name>>])
  ELSE /\ variableValues' = variableValues
       /\ tasks' = [tasks EXCEPT ![t] = tk2]
       /\ outbox' = outbox \o editNotes(tk2)

EditVariableLookup(t) ==
  /\ tasks[t].pc = "editVar"
  /\ \E o \in LookupOutcomes : EditStep(t, editVariable(tasks[t], o))
  /\ UNCHANGED <<nodes, currentPage, selection, teamLibraries, clientStorage, scanMode, Session>>

EditCollectionLookup(t) ==
  /\ tasks[t].pc = "editCollection"
  /\ \E o \in LookupOutcomes, so \in {"ok", "throw"} : EditStep(t, editCollection(tasks[t], o, so))
  /\ UNCHANGED <<nodes, currentPage, selection, teamLibraries, clientStorage, scanMode, Session>>

EditLibsLookup(t) ==
  /\ tasks[t].pc = "editLibs"
  /\ \E o \in {"ok", "throw"}, so \in {"ok", "throw"} :
       EditStep(t, editGhost(tasks[t], teamLibraries, o, so))
  /\ UNCHANGED <<nodes, currentPage, selection, teamLibraries, clientStorage, scanMode, Session>>

\* getVariableCollections has thrown: refreshData catches and posts the error
RefreshFailed(t) ==
  /\ tasks[t].pc = "thrown"
  /\ tasks[t].kind # "scan"
  /\ tasks' = [tasks EXCEPT ![t] = afterRefresh(tasks[t])]
  /\ outbox' = outbox \o refreshCatch(tasks[t])
  /\ UNCHANGED Host

NextEdit ==
  \/ RequestEdit
  \/ \E t \in DOMAIN tasks : EditVariableLookup(t)
  \/ \E t \in DOMAIN tasks : EditCollectionLookup(t)
  \/ \E t \in DOMAIN tasks : EditLibsLookup(t)
  \/ \E t \in DOMAIN tasks : GroupLookup(t)
  \/ \E t \in DOMAIN tasks : FetchLookup(t)
  \/ \E t \in DOMAIN tasks : EnrichVariableLookup(t)
  \/ \E t \in DOMAIN tasks : EnrichAliasLookup(t)
  \/ \E t \in DOMAIN tasks : GhostLookup(t)
  \/ \E t \in DOMAIN tasks : ReadIgnoredIds(t)
  \/ \E t \in DOMAIN tasks : RefreshReturn(t)
  \/ \E t \in DOMAIN tasks : RefreshFailed(t)

SpecEdit == InitEdit /\ [][NextEdit]_vars

\* the messages of one type posted so far
PostedOf(type) == SelectSeq(outbox, LAMBDA m : m.type = type)

RejectedNote == NotifyError("Cannot edit library variables. Open the library file to edit.")

CollectionOfTarget(tk) == HostCollectionOf(HostVariables[tk.target].variableCollectionId)

\* the handlers that have set the value of mode m of variable h
Setters(h, m) ==
  { t \in DOMAIN tasks : tasks[t].hEdit = "applied" /\ tasks[t].target = h /\ tasks[t].msg.modeId = m }

\* C12. Edit permission: an update-variable request sets a mode value only
\* if the token's collection is local or a ghost remote; a request for a token
\* of a remote collection that is not a ghost ends with the reason shown, no
\* exception escapes the handler, and the values are as they were.
C12_EditPermission ==
  /\ \A t \in DOMAIN tasks :
       LET tk == tasks[t]
           c  == CollectionOfTarget(tk)
       IN  /\ (tk.hEdit = "applied" /\ c # "none") =>
                \/ ~HostCollections[c].remote
                \/ HostCollections[c].key \notin teamLibraries
           /\ tk.hEdit = "rejected" =>
                /\ tk.pc = "done"
                /\ \E i \in 1..Len(outbox) : outbox[i] = RejectedNote
  /\ \A h \in DOMAIN variableValues :
       \A m \in DOMAIN variableValues[h] :
         variableValues[h][m] # InitialValues[h][m] => Setters(h, m) # {}

\* the invocations of refreshData whose scan was started, threw and was caught,
\* and returned
Started == { t \in DOMAIN tasks : tasks[t].kind = "refresh" \/ tasks[t].hEdit = "applied" }

Caught == { t \in DOMAIN tasks : tasks[t].hThrow # "" /\ tasks[t].pc # "thrown" }

\* C13. No partial results: every scan invocation ends in a complete result
\* or in a single error; when a stage throws getVariableCollections returns
\* nothing, and refreshData posts exactly one 'error' message and no
\* 'collections-data' message for that invocation.
C13_NoPartialResults ==
  /\ Len(PostedOf("error")) = Cardinality(Caught)
  /\ Len(PostedOf("collections-data")) = Cardinality({ t \in DOMAIN tasks : HasResult(t) })
  /\ \A t \in DOMAIN tasks :
       LET tk == tasks[t]
       IN  /\ tk.hThrow # "" => tk.result = NoResult
           /\ HasResult(t) =>
                /\ tk.hThrow = ""
                /\ tk.result.collections = tk.collectionsData
                /\ \E i \in 1..Len(outbox) : outbox[i] = CollectionsData(tk.result, scanMode)
           /\ (t \in Started /\ tk.pc = "done") => (t \in Caught) # HasResult(t)

\* C13 witness: one invocation threw while it resolved an alias, after it had
\* gathered its collections, and ended with its error posted; another one
\* returned.
C13_Witness ==
  \E t, u \in DOMAIN tasks :
    /\ tasks[t].hThrow = "enrichAlias"
    /\ tasks[t].pc = "done"
    /\ tasks[t].collections # <<>>
    /\ HasResult(u)

\* ------------------------------------------------------------------------
\* Specification SpecColor: hexToRgb and rgbToHex applied to hex strings
\* ------------------------------------------------------------------------

\* the number of hex digits '#RRGGBB' strings are built from in every position
MaxDigits == 4

SampleDigits == { UpperOf(HexDigits[1 + ((5 * i) % 16)]) : i \in 0..(MaxDigits - 1) }

AllDigits == { UpperOf(HexDigits[i]) : i \in 1..16 }

\* upper-case '#RRGGBB' strings: every digit from the sample, and every red
\* byte next to a fixed green and blue
UpperHexes ==
  { <<"#">> \o ds : ds \in [1..6 -> SampleDigits] } \cup
  { <<"#", d1, d2, "0", "8", "F", "F">> : d1 \in AllDigits, d2 \in AllDigits }

LowerOf(c) == IF \E i \in 1..16 : UpperOf(HexDigits[i]) = c
              THEN HexDigits[CHOOSE i \in 1..16 : UpperOf(HexDigits[i]) = c] ELSE c

\* the ways a colour is written: with or without '#', in upper, lower or
\* mixed case
Spellings(hex) ==
  LET lower == [i \in 1..Len(hex) |-> LowerOf(hex[i])]
      mixed == [i \in 1..Len(hex) |-> IF i % 2 = 0 THEN LowerOf(hex[i]) ELSE hex[i]]
  IN  {hex, Tail(hex), lower, Tail(lower), mixed, Tail(mixed)}

\* strings the pattern does not match
NotHexes == { <<>>, <<"#">>, <<"#", "F", "F", "F">>, <<"#", "G", "0", "0", "0", "0", "0">>,
              <<"#", "F", "F", "0", "0", "0", "0", "0">>, <<"#", "#", "F", "F", "0", "0", "0", "0">> }

InitColor ==
  /\ nodes = [id \in SceneNodeIds |-> BaseNode(id, <<>>)]
  /\ currentPage = "P1"
  /\ selection = <<>>
  /\ teamLibraries = {}
  /\ variableValues = InitialValues
  /\ clientStorage = EmptyStorage
  /\ scanMode = "page"
  /\ \E upper \in UpperHexes :
       \E hex \in Spellings(upper) \cup NotHexes :
         tasks = <<[NewTask("codec", "page", Message("hex", "", "", hex)) EXCEPT
                      !.pending = upper]>>
  /\ outbox = <<>>
  /\ SessionStart

\* hexToRgb(hex), then rgbToHex(rgb.r, rgb.g, rgb.b)
ConvertHex(t) ==
  /\ tasks[t].kind = "codec"
  /\ tasks[t].pc = "call"
  /\ LET rgb == hexToRgb(tasks[t].msg.value)
     IN  tasks' = [tasks EXCEPT ![t].pc = "done",
                                ![t].result = [rgb |-> rgb, hex |-> rgbToHex(rgb.r, rgb.g, rgb.b)]]
  /\ UNCHANGED <<Host, outbox>>

SpecColor == InitColor /\ [][\E t \in DOMAIN tasks : ConvertHex(t)]_vars

\* C24. Colour codec round trip: for an upper-case '#RRGGBB' string,
\* rgbToHex of the channels of hexToRgb gives the string back; hexToRgb
\* accepts the string without '#' and in any letter case, with the same
\* channels; the alpha it returns is always 1.
C24_CodecRoundTrip ==
  \A t \in DOMAIN tasks :
    LET tk == tasks[t]
        hex == tk.msg.value
        upper == tk.pending
    IN  tk.pc = "done" =>
          /\ tk.result.rgb.a = 1
          /\ hex = upper => tk.result.hex = hex
          /\ hex \in Spellings(upper) =>
               /\ tk.result.hex = upper
               /\ \A ch \in {"r", "g", "b"} :
                    /\ tk.result.rgb[ch][2] = 255
                    /\ tk.result.rgb[ch][1] \in 0..255
               /\ toHex(tk.result.rgb.r) \o toHex(tk.result.rgb.g) \o toHex(tk.result.rgb.b)
                    = [i \in 1..6 |-> LowerOf(upper[i + 1])]

\* C24 witness: a lower-case string without '#' whose channels are not
\* multiples of a 16th has been converted and written back as '#RRGGBB'.
C24_Witness ==
  \E t \in DOMAIN tasks :
    /\ tasks[t].pc = "done"
    /\ tasks[t].msg.value = <<"a", "5", "0", "8", "f", "f">>
    /\ tasks[t].result.hex = <<"#", "A", "5", "0", "8", "F", "F">>
    /\ tasks[t].result.rgb.r = <<165, 255>>

\* ------------------------------------------------------------------------
\* Specification SpecScan: the tree scanner (step 1 of the pipeline) on
\* nodes whose type, text style, paints and bindings vary
\* ------------------------------------------------------------------------

Hidden(color) == [type |-> "SOLID", visible |-> FALSE, color |-> color]

Gradient == [type |-> "GRADIENT_LINEAR", visible |-> TRUE, color |-> Grey]

\* node.fills: no such property, figma.mixed, or an array of paints
ScanFills ==
  { [kind |-> "absent", paints |-> <<>>], [kind |-> "mixed", paints |-> <<>>],
    Paints(<<>>), Paints(<<Solid(Red)>>), Paints(<<Hidden(Green), Solid(Grey)>>),
    Paints(<<Hidden(Red)>>), Paints(<<Gradient>>) }

\* node.strokes
ScanStrokes ==
  { [kind |-> "absent", paints |-> <<>>], Paints(<<>>), Paints(<<Solid(Green)>>),
    Paints(<<Hidden(Green), Gradient>>) }

\* node.boundVariables; a slot of kind "primitive" holds a truthy primitive
\* instead of a binding
ScanBindings ==
  { <<>>,
    << Slot("fills", "array", <<IdBlue>>) >>,
    << Slot("strokes", "array", <<IdLib>>) >>,
    << Slot("fills", "array", <<>>) >>,
    << Slot("width", "primitive", <<>>) >>,
    << Slot("fills", "array", <<IdBlue>>), Slot("strokes", "primitive", <<>>),
       Slot("opacity", "single", <<IdText>>) >> }

\* (type, textStyleId) of the varied node
ScanKinds == { <<"TEXT", "">>, <<"TEXT", "S:1">>, <<"FRAME", "">> }

ScanScopes ==
  { <<"page", "P1", <<>> >>, <<"document", "P1", <<>> >>,
    <<"selection", "P1", <<"1:2">> >>, <<"selection", "P1", <<"1:1", "1:2">> >>,
    <<"selection", "P1", <<"1:1", "1:3", "1:2">> >> }

InitScan ==
  /\ \E k \in ScanKinds, f \in ScanFills, st \in ScanStrokes, b \in ScanBindings, b1 \in ScanBindings :
       nodes = [id \in SceneNodeIds |->
                  CASE id = "1:2" -> NodeAttrs(k[1], k[2], <<"H", "i">>, f, st, b)
                    [] id = "1:1" -> BaseNode(id, b1)
                    [] OTHER      -> BaseNode(id, <<>>)]
  /\ \E sc \in ScanScopes :
       /\ scanMode = sc[1]
       /\ currentPage = sc[2]
       /\ selection = sc[3]
       /\ tasks = <<NewTask("scan", sc[1], NoMsg)>>
  /\ teamLibraries = {}
  /\ variableValues = InitialValues
  /\ clientStorage = EmptyStorage
  /\ outbox = <<>>
  /\ SessionStart

NextScan ==
  \/ \E t \in DOMAIN tasks : Call(t)
  \/ \E t \in DOMAIN tasks : PageYield(t)

SpecScan == InitScan /\ [][NextScan]_vars

\* the scanner has returned to the pipeline
Scanned(tk) == tk.pc \notin {"call", "pages", "thrown"}

\* how many of the roots of a scan have the node in their subtree
Visits(tk, id) == Cardinality({ r \in 1..Len(tk.hRoots) : id \in SubtreeIds(tk.hRoots[r]) })

\* the ids of the bindings of the slots that hold bindings
ParsableIds(node) ==
  UNION { Range(node.boundVariables[i].ids) \ {NullBinding} :
            i \in { j \in 1..Len(node.boundVariables) : node.boundVariables[j].kind # "primitive" } }

\* the nodes a scan of the given scope has to visit
ScopeNodes(tk) ==
  IF tk.mode = "selection" /\ Len(selection) > 0
  THEN UNION { SubtreeIds(selection[i]) : i \in 1..Len(selection) }
  ELSE IF tk.mode = "document" THEN NodeIds
  ELSE SubtreeIds(currentPage)

\* C21. Tree Scanner failure handling: a slot whose value is not a binding
\* (a primitive) is skipped for that slot only; no exception leaves the
\* scanner, and once the scan step is over every binding of every other slot
\* of every node of the scope is recorded.
C21_UnparsableSlotSkipped ==
  \A t \in DOMAIN tasks :
    LET tk == tasks[t]
    IN  /\ ~(tk.pc = "thrown" /\ tk.hThrow = "scan")
        /\ tk.pc \notin {"call", "pages"} =>
             \A id \in ScopeNodes(tk) : \A varId \in ParsableIds(Attrs[id]) :
               /\ MapHas(tk.variableToNodes, varId)
               /\ Includes(MapGet(tk.variableToNodes, varId), id)

\* the number of entries of a type a scan holds for a node
EntriesOf(tk, id, type) ==
  Cardinality({ i \in 1..Len(tk.unboundElements) :
                  tk.unboundElements[i].id = id /\ tk.unboundElements[i].type = type })

HasVisibleSolid(p) ==
  p.kind = "list" /\ \E i \in 1..Len(p.paints) : p.paints[i].type = "SOLID" /\ p.paints[i].visible

BoundKeys(node) == { node.boundVariables[i].key : i \in 1..Len(node.boundVariables) }

VariableSlots(result) ==
  UNION { { <<c, i>> : i \in 1..Len(result.collections[c].variables) } :
          c \in 1..Len(result.collections) }

\* C29. Token uniqueness within a result: no token id occurs twice in the
\* variables array of a collection nor in two collections of one result, also
\* when several raw binding identifiers denote the same token record.
C29_TokenOnce ==
  \A t \in DOMAIN tasks :
    Returned(t) =>
      LET cs == tasks[t].result.collections
      IN  \A p, q \in VariableSlots(tasks[t].result) :
            cs[p[1]].variables[p[2]].id = cs[q[1]].variables[q[2]].id => p = q

\* ------------------------------------------------------------------------
\* Session handlers (code.ts: loadInitialData, 'ready', 'set-scan-mode',
\* 'select-nodes', figma.on('currentpagechange'); ui.tsx: window.onmessage)
\* ------------------------------------------------------------------------

\* number of requests and user page changes of a session
MaxSession == 2

SessionMessage(type, mode, nodeIds) ==
  [type |-> type, elementId |-> "", valueType |-> "", value |-> <<>>,
   scanMode |-> mode, nodeIds |-> nodeIds]

\* loadInitialData(): `if (initialLoadDone) return;`, then the scan up to its
\* first await
loadInitialData(tk, done, mode, attrs, page, sel, now) ==
  IF done THEN [tk EXCEPT !.pc = "done", !.hEvent = "noop"]
  ELSE [refreshData(tk, mode, attrs, page, sel, now) EXCEPT !.hEvent = "load"]

\* the page a node is on (the walk up the parents to a PAGE node)
PageOf(id) == CHOOSE p \in Range(PageIds) : id \in SubtreeIds(p)

\* 'select-nodes': the nodes getNodeById finds, the page of the first of
\* them, and whether the handler switches the page
selectNodes(msg, page) ==
  LET found == SelectSeq(msg.nodeIds, LAMBDA id : id \in SceneNodeIds)
      targetPage == IF found = <<>> THEN page ELSE PageOf(found[1])
  IN  [nodes |-> found, targetPage |-> targetPage,
       switch |-> msg.type = "select-nodes" /\ found # <<>> /\ targetPage # page]

\* the scan mode after the handler of msg: `if (msg.scanMode) scanMode = msg.scanMode`
modeAfter(msg, mode) ==
  IF msg.type = "set-scan-mode" /\ msg.scanMode # "" THEN msg.scanMode ELSE mode

\* figma.ui.onmessage for the session messages, up to the first await; a
\* 'select-nodes' that switched the page leaves a 'currentpagechange' event
\* to be delivered (pc "event")
onSessionMessage(msg, done, mode, attrs, page, sel, now) ==
  LET tk == NewTask(msg.type, modeAfter(msg, mode), msg)
  IN  CASE msg.type = "ready" -> loadInitialData(tk, done, mode, attrs, page, sel, now)
        [] msg.type = "refresh" -> refreshData(tk, mode, attrs, page, sel, now)
        [] msg.type = "set-scan-mode" ->
             IF msg.scanMode # "" THEN refreshData(tk, msg.scanMode, attrs, page, sel, now)
             ELSE [tk EXCEPT !.pc = "done"]
        [] OTHER ->
             IF selectNodes(msg, page).switch THEN [tk EXCEPT !.pc = "event"]
             ELSE [tk EXCEPT !.pc = "done"]

\* ui.tsx handleRefresh and handleScanModeChange: the state set before posting
uiSends(state, msg) ==
  CASE msg.type = "refresh" -> [state EXCEPT !.loading = TRUE, !.error = <<>>]
    [] msg.type = "set-scan-mode" ->
         [state EXCEPT !.scanMode = msg.scanMode, !.loading = TRUE, !.scanProgress = 0]
    [] OTHER -> state

\* ui.tsx window.onmessage: the state after plugin message number i
uiReceives(state, msg, i) ==
  LET seen == [state EXCEPT !.received = i, !.last = msg.type]
  IN  CASE msg.type = "collections-data" ->
             [seen EXCEPT !.loading = FALSE, !.hasScanned = TRUE, !.shown = i,
                          !.scanProgress = 0,
                          !.scanMode = IF msg.scanMode # "" THEN msg.scanMode ELSE @]
        [] msg.type = "error" ->
             [seen EXCEPT !.error = IF msg.error # <<>> THEN msg.error ELSE <<"Unknown error">>,
                          !.loading = FALSE, !.scanProgress = 0]
        [] msg.type = "page-changed" -> [seen EXCEPT !.hasScanned = FALSE]
        [] msg.type = "scan-progress" ->
             [seen EXCEPT !.scanProgress = IF msg.current # 0 /\ msg.total # 0 THEN msg.current ELSE @]
        [] OTHER -> seen

\* the handler of 'currentpagechange': a set flag is cleared and nothing else
\* happens; otherwise 'page-changed' is posted and, unless the scan mode is
\* 'document', refreshData is called
onCurrentPageChange(tk, flag, mode, attrs, page, sel, now) ==
  IF flag THEN [tk EXCEPT !.pc = "done", !.mode = mode, !.hEvent = "skipped"]
  ELSE IF mode # "document"
  THEN [refreshData(tk, mode, attrs, page, sel, now) EXCEPT !.hEvent = "notified"]
  ELSE [tk EXCEPT !.pc = "done", !.mode = mode, !.hEvent = "notified"]

\* ------------------------------------------------------------------------
\* Specification SpecSession: a plugin session with its UI
\* ------------------------------------------------------------------------

SessionRequests ==
  { SessionMessage("ready", "", <<>>),
    SessionMessage("refresh", "", <<>>),
    SessionMessage("set-scan-mode", "document", <<>>),
    SessionMessage("set-scan-mode", "selection", <<>>),
    SessionMessage("set-scan-mode", "", <<>>),
    SessionMessage("select-nodes", "", <<"2:1">>),
    SessionMessage("select-nodes", "", <<"9:9", "1:2", "2:1">>),
    SessionMessage("select-nodes", "", <<>>) }

\* node 2:1 is bound to a token whose collection is gone: scans that reach
\* page 2 look the token and the collection up
InitSession ==
  /\ nodes = [id \in SceneNodeIds |->
                BaseNode(id, IF id = "2:1" THEN <<Slot("fills", "array", <<IdOrphan>>)>> ELSE <<>>)]
  /\ scanMode = "page"
  /\ currentPage \in Range(PageIds)
  /\ selection = <<>>
  /\ teamLibraries = {}
  /\ variableValues = InitialValues
  /\ clientStorage = EmptyStorage
  /\ tasks = <<>>
  /\ outbox = <<>>
  /\ SessionStart

\* the UI posts a message: the handler runs up to its first await
SessionRequest ==
  /\ Len(tasks) < MaxSession
  /\ \E msg \in SessionRequests :
       LET sel == selectNodes(msg, currentPage)
           tk == onSessionMessage(msg, initialLoadDone, scanMode, Attrs, currentPage,
                                  selection, Now(Len(outbox), clientStorage))
       IN  /\ tasks' = Append(tasks, tk)
           /\ outbox' = outbox \o Posts(tk)
           /\ scanMode' = modeAfter(msg, scanMode)
           /\ currentPage' = sel.targetPage
           /\ selection' = IF msg.type = "select-nodes" /\ sel.nodes # <<>>
                           THEN sel.nodes ELSE selection
           /\ isProgrammaticPageChange' = (isProgrammaticPageChange \/ sel.switch)
           /\ ui' = uiSends(ui, msg)
  /\ UNCHANGED <<nodes, teamLibraries, variableValues, clientStorage, initialLoadDone>>

\* the user opens another page in the editor
UserPageChange ==
  /\ Len(tasks) < MaxSession
  /\ \E p \in Range(PageIds) \ {currentPage} : currentPage' = p
  /\ selection' = <<>>
  /\ tasks' = Append(tasks, [NewTask("page-change", scanMode, NoMsg) EXCEPT !.pc = "event"])
  /\ UNCHANGED <<nodes, teamLibraries, variableValues, clientStorage, scanMode, outbox, Session>>

\* the host delivers the oldest pending 'currentpagechange' event
PageChangeEvent(t) ==
  /\ tasks[t].pc = "event"
  /\ \A u \in 1..(t - 1) : tasks[u].pc # "event"
  /\ LET tk == onCurrentPageChange(tasks[t], isProgrammaticPageChange, scanMode, Attrs,
                                   currentPage, selection, Now(Len(outbox) + 1, clientStorage))
     IN  /\ tasks' = [tasks EXCEPT ![t] = tk]
         /\ outbox' = IF isProgrammaticPageChange THEN outbox
                      ELSE Append(outbox, [type |-> "page-changed"]) \o Posts(tk)
  /\ isProgrammaticPageChange' = FALSE
  /\ UNCHANGED <<nodes, currentPage, selection, teamLibraries, variableValues, clientStorage,
               scanMode, initialLoadDone, ui>>

\* the UI handles the next plugin message
UiReceive ==
  /\ ui.received < Len(outbox)
  /\ ui' = uiReceives(ui, outbox[ui.received + 1], ui.received + 1)
  /\ UNCHANGED <<nodes, currentPage, selection, teamLibraries, variableValues, clientStorage,
               scanMode, tasks, outbox, initialLoadDone, isProgrammaticPageChange>>

NextSession ==
  \/ SessionRequest
  \/ UserPageChange
  \/ UiReceive
  \/ \E t \in DOMAIN tasks : PageChangeEvent(t)
  \/ \E t \in DOMAIN tasks : PageYield(t)
  \/ \E t \in DOMAIN tasks : GroupLookup(t)
  \/ \E t \in DOMAIN tasks : FetchLookup(t)
  \/ \E t \in DOMAIN tasks : ReadIgnoredIds(t)
  \/ \E t \in DOMAIN tasks : RefreshReturn(t)
  \/ \E t \in DOMAIN tasks : RefreshFailed(t)

SpecSession == InitSession /\ [][NextSession]_vars

\* ------------------------------------------------------------------------
\* Properties of a session (specification SpecSession)
\* ------------------------------------------------------------------------

\* the 'currentpagechange' event of task t has been delivered
Delivered(t) == tasks[t].hEvent \in {"skipped", "notified"}

\* C25. Programmatic page changes do not refresh: the event of a page change
\* made by 'select-nodes' posts no 'page-changed' and starts no rescan, and
\* the event of every page change made by the user posts 'page-changed' and,
\* unless the scan mode is 'document', starts a rescan.
C25_ProgrammaticPageChange ==
  \A t \in DOMAIN tasks :
    Delivered(t) =>
      IF tasks[t].kind = "select-nodes" THEN tasks[t].hEvent = "skipped"
      ELSE /\ tasks[t].hEvent = "notified"
           /\ tasks[t].mode # "document" => tasks[t].hStart > 0

\* C26. Scan mode of a result: every 'collections-data' a scan posts carries
\* in scanMode the scope that scan was run with.
C26_ScanModeOfResult ==
  \A t \in DOMAIN tasks :
    tasks[t].hPosted > 0 => outbox[tasks[t].hPosted].scanMode = tasks[t].mode

\* the 'ready' handlers that started a scan, and those that posted a result
Loads == { t \in DOMAIN tasks : tasks[t].kind = "ready" /\ tasks[t].hEvent = "load" }

LoadsPosted == { t \in Loads : tasks[t].hPosted > 0 }

\* C28. Initial load at most once: whatever 'ready' messages arrive,
\* loadInitialData starts at most one scan and posts at most one initial
\* 'collections-data'; a 'ready' that arrives after an initial result was
\* posted starts nothing.
C28_InitialLoadOnce ==
  /\ Cardinality(Loads) <= 1
  /\ Cardinality(LoadsPosted) <= 1
  /\ \A t \in LoadsPosted : \A u \in Loads : ~(tasks[u].hStart >= tasks[t].hPosted)

\* C30. Whenever the plugin message the UI handled last is a
\* 'collections-data', the UI holds no error (it does not render its error
\* branch).
C30_NoErrorAfterData == ui.last = "collections-data" => ui.error = <<>>

\* the scan of task t has handed its result to refreshData or loadInitialData
ScanReturned(t) == tasks[t].result.currentPageName # ""

\* position in outbox of the 'collections-data' posted last (0: none)
LastPosted ==
  LET ps == { tasks[t].hPosted : t \in DOMAIN tasks }
  IN  IF ps = {} THEN 0 ELSE CHOOSE p \in ps : \A q \in ps : q <= p

\* C23. No cancellation, last completion wins: every scan that returns posts
\* its own result, whatever other requests were handled while it was in
\* flight, and once the UI has handled every message the result on display is
\* the one posted last.
C23_LastCompletionWins ==
  /\ \A t \in DOMAIN tasks :
       ScanReturned(t) =>
         /\ tasks[t].hPosted \in 1..Len(outbox)
         /\ outbox[tasks[t].hPosted].type = "collections-data"
         /\ outbox[tasks[t].hPosted].data = tasks[t].result.collections
         /\ outbox[tasks[t].hPosted].unboundElements = tasks[t].result.unboundElements
         /\ outbox[tasks[t].hPosted].pageName = tasks[t].result.currentPageName
  /\ ui.received = Len(outbox) => ui.shown = LastPosted

\* C23 witness: the scan issued first (a document scan) posted after the
\* scan issued while it was in flight, with a different result, and the UI
\* displays the result of the scan issued first.
C23_Witness ==
  /\ Len(tasks) = 2
  /\ tasks[1].mode = "document"
  /\ tasks[2].hStart < tasks[2].hPosted
  /\ tasks[2].hPosted < tasks[1].hPosted
  /\ outbox[tasks[1].hPosted].unboundElements # outbox[tasks[2].hPosted].unboundElements
  /\ ui.received = Len(outbox)
  /\ ui.shown = tasks[1].hPosted

\* ------------------------------------------------------------------------
\* Concurrent ignore requests (specification SpecIgnore)
\* ------------------------------------------------------------------------

\* two requests are about the same entry of the same list
SameEntry(m1, m2) ==
  \/ IsElementRequest(m1) /\ IsElementRequest(m2) /\ m1.elementId = m2.elementId
  \/ IsValueRequest(m1) /\ IsValueRequest(m2) /\ SamePair(m1, m2)

\* C27. Concurrent ignore requests are all persisted: when an ignore request
\* and another ignore or unignore request for a different entry have both
\* been handled to completion, in whatever interleaving, the entry of the
\* ignore request is stored (two ignores are both stored, and an unignore
\* removes no entry but its own).
C27_ConcurrentIgnores ==
  \A a, b \in DOMAIN tasks :
    ( /\ a # b
      /\ tasks[a].pc = "done" /\ tasks[b].pc = "done"
      /\ IsAdd(tasks[a].msg) /\ acceptsMessage(tasks[a].msg)
      /\ IsElementRequest(tasks[b].msg) \/ IsValueRequest(tasks[b].msg)
      /\ ~SameEntry(tasks[a].msg, tasks[b].msg) )
    => Present(clientStorage[storageKeyOf(tasks[a].msg)], tasks[a].msg)

====
